---- MODULE Spec2Model ----
(***************************************************************************)
(* Voice2Board: the command queue / undo history of the VoiceBoard         *)
(* component and the frame scheduler of the Canvas component.              *)
(*                                                                         *)
(* Numbers that are fractions in the source are kept exact: a speed        *)
(* multiplier is stored in hundredths (1.0x = 100), a millisecond value    *)
(* as a fraction [num, den].  A command is a record with an id that stands *)
(* for the identity of the JavaScript object (indexOf compares by          *)
(* identity).                                                              *)
(***************************************************************************)
EXTENDS Integers, Sequences, FiniteSets, TLC

VARIABLES
    \* ---- VoiceBoard (React state)
    drawingQueue,          \* DrawingCommand[]
    actionStack,           \* DrawingCommand[][]  (undo stack)
    animationSpeed,        \* speed multiplier, in hundredths
    chatMessages,          \* the roles of the chat messages, in order
    \* ---- Canvas (refs, module-level and sketch-local state)
    processedCommands,     \* processedCommandsRef.current : Set<number>
    commandHistory,        \* commandHistoryRef.current
    activeAnimations,      \* activeAnimationsRef.current : Map<number, GraphAnimationState>
    completedDrawingsRef,  \* completedDrawingsRef.current
    completedDrawings,     \* the array the sketch closure captured once
    sameArray,             \* TRUE while the two above are one and the same array
    colorIndex,            \* module-level colorIndex
    isLooping,             \* p5 draw loop on (loop()) or off (noLoop())
    isPaused,              \* isPausedRef.current
    elapsed,               \* performance.now() - lastFrameTime, saturated at MIN_FRAME_DELTA
    \* ---- observations of what the code did (written by the code paths below)
    nextId,                \* identity of the next command object created
    fired,                 \* fired[id]: calls of the command's onComplete callback
    dispatched,            \* dispatched[id]: times processQueue dispatched the command
    outcome,               \* outcome[id]: fate of the command's animation instance
    lastRender,            \* lastRender[id]: the last drawAnimatedGraph call of the instance
    rendered,              \* ids drawn from the completed list by the last rendered tick
    ticked,                \* a rendered tick happened since the last board operation
    hist,                  \* the last board operation: the queue before an enqueue,
                           \* whether an undo popped a snapshot
    lastCall,              \* the response of the last processActions call on the
                           \* board (a clear forgets it), and a bit that every
                           \* call flips
    lastClear,             \* kind of the last clear action and the ids created before it
    scenario,              \* count of sequential enqueues from empty, then of undos
    \* ---- the API key, demo mode and the microphone (VoiceBoard, MicButton)
    apiKeyStored,          \* localStorage holds an API key
    showApiKeyInput,       \* the ApiKeyInput screen is shown instead of the board
    isDemoMode,            \* the Demo Mode checkbox
    micProps,              \* requiresApiKey and disabled, as VoiceBoard last rendered them
    isListening,           \* useSpeechToText: recognition is running
    final,                 \* useSpeechToText: final text heard since the start
    pending,               \* the interpretCommand call handleTranscript awaits
    tutorBrain,            \* useTutorBrain: lastTranscriptRef, lastTimestampRef, the
                           \* clock, the /api/interpret calls made, and what the
                           \* last handleTranscript call did
    \* ---- API server (index.ts, routes/interpret.ts, utils/sessionStore.ts)
    sessions,              \* the sessions Map: session id -> history (Message[])
    inflight,              \* the POST /api/interpret handlers waiting for the model
    requestCount,          \* requests received (the n-th has request id n)
    lastReply,             \* the last request handled and what the server did with it
    \* ---- server utilities (utils/mathUtils.ts, utils/timeout.ts)
    sampled,               \* the last sampleFunction call and what it returned
    retry,                 \* a callWithRetry call: its loop, fn's promises, its timers
    stream,                \* the last GET /api/interpret/stream response: what was
                           \* written to it before and after it was ended
    addedLog               \* addedLog[sessionId]: every message handed to addMessage
                           \* directly (SpecSession), in order

clientVars == <<drawingQueue, actionStack, animationSpeed, processedCommands,
                commandHistory, activeAnimations, completedDrawingsRef,
                completedDrawings, sameArray, colorIndex, isLooping, isPaused,
                elapsed, nextId, fired, dispatched, outcome, lastRender, rendered,
                ticked, hist, lastClear, scenario, chatMessages, lastCall,
                apiKeyStored, showApiKeyInput, isDemoMode, micProps, isListening,
                final, pending>>

micVars == <<apiKeyStored, showApiKeyInput, isDemoMode, micProps, isListening,
             final, pending>>

utilVars == <<sampled, retry, stream, addedLog, tutorBrain>>

serverVars == <<sessions, inflight, requestCount, lastReply, utilVars>>

vars == <<clientVars, serverVars>>

boardVars == <<drawingQueue, actionStack>>

canvasVars == <<processedCommands, commandHistory, activeAnimations,
                completedDrawingsRef, completedDrawings, sameArray, colorIndex,
                isLooping, isPaused, elapsed, fired, dispatched, outcome,
                lastRender, rendered, ticked>>

-----------------------------------------------------------------------------
(* Program constants *)

MAX_STACK_SIZE == 50

MIN_FRAME_DELTA == 14

COORDINATE_RANGE == 10

DefaultTargetPoints == 200

ReducedTargetPoints == 120

WideDomainSpan == 40

FastSpeed == 250

DefaultAnimationMs == 1500

FramesPerSecond == 60

COLORS == <<"blue", "red", "green", "orange", "purple", "pink">>

(* Bounds of the model *)

MaxCmds == 2      \* command objects created in one run of Spec

MaxBatch == 2     \* commands in one enqueued batch in Spec

StackCmds == 52   \* command objects created in one run of SpecStack

MaxFrames == 6    \* longest short animation (in frames) of SpecAnim

MaxActions == 2   \* actions in one response of SpecChat

ChatCmds == 2     \* command objects created in one run of SpecChat

MaxChat == 3      \* chat messages in one run of SpecChat

ExtraTicks == 3   \* ticks past the duration at which SpecRender renders

MaxPairs == 2     \* points, and labels, of one annotate action of SpecAnnotate

MaxRequests == 2  \* requests received in one run of SpecServer

-----------------------------------------------------------------------------
(* Small helpers *)

MinOf(S) == CHOOSE x \in S : \A y \in S : x <= y

Abs(n) == IF n < 0 THEN -n ELSE n

LastN(s, n) == IF Len(s) <= n THEN s ELSE SubSeq(s, Len(s) - n + 1, Len(s))

Ids(cmds) == [i \in 1..Len(cmds) |-> cmds[i].id]

Range(s) == {s[i] : i \in 1..Len(s)}

Undefined == [num |-> 0, den |-> 1]    \* a missing (falsy) number

Ms(n) == [num |-> n, den |-> 1]

Multiplier(speed) == [num |-> speed, den |-> 100]

-----------------------------------------------------------------------------
(* utils/mathParser.ts and utils/drawing.ts *)

Expressions == {"x*x", "1/x", "x", "1/0"}

\* parseMathExpression(expression)(x) for x = xnum/xden, xden > 0: the value
\* mathjs returns, or NaN where evaluation throws or yields no number.
\* Dividing by zero yields an infinity in mathjs, not an error.
Evaluate(expression, xnum, xden) ==
    CASE expression = "x*x" -> [kind |-> "number", num |-> xnum * xnum, den |-> xden * xden]
      [] expression = "x"   -> [kind |-> "number", num |-> xnum, den |-> xden]
      [] expression = "1/x" -> IF xnum = 0
                               THEN [kind |-> "infinite", num |-> 0, den |-> 1]
                               ELSE [kind |-> "number",
                                     num |-> IF xnum < 0 THEN -xden ELSE xden,
                                     den |-> Abs(xnum)]
      [] expression = "1/0" -> [kind |-> "infinite", num |-> 0, den |-> 1]
      [] expression = "200/x" -> IF xnum = 0
                                 THEN [kind |-> "infinite", num |-> 0, den |-> 1]
                                 ELSE [kind |-> "number",
                                       num |-> IF xnum < 0 THEN -200 * xden
                                               ELSE 200 * xden,
                                       den |-> Abs(xnum)]
      [] OTHER              -> [kind |-> "nan", num |-> 0, den |-> 1]

\* !isNaN(y) && isFinite(y) && Math.abs(y) <= COORDINATE_RANGE * 2
KeepSample(y) ==
    /\ y.kind = "number"
    /\ Abs(y.num) <= COORDINATE_RANGE * 2 * y.den

\* The adaptive choice of animateGraph: the speed is the multiplier handed in
\* (falsy when missing).
TargetPoints(domainSpan, speed) ==
    IF domainSpan > WideDomainSpan
       \/ (speed.num # 0 /\ speed.num * 100 > FastSpeed * speed.den)
    THEN ReducedTargetPoints
    ELSE DefaultTargetPoints

-----------------------------------------------------------------------------
(* IEEE 754 double arithmetic of the sampling loops                         *)
(*     for (let x = minX; x <= maxX; x += step)                             *)
(* A magnitude is a natural number in LimbCount limbs of LimbBits bits,     *)
(* least significant first; a double is a sign and a magnitude in units of  *)
(* the last place of step (every x of a loop is a multiple of that unit).   *)

LimbBits == 20

LimbBase == 2^LimbBits

LimbCount == 4

Significand == 53    \* bits of precision of a double

\* n * 2^shift for a small natural n
ShiftLeft(n, shift) ==
    LET whole == shift \div LimbBits
        v == n * 2^(shift % LimbBits)
    IN  [i \in 1..LimbCount |-> IF i = whole + 1 THEN v % LimbBase
                                ELSE IF i = whole + 2 THEN v \div LimbBase
                                ELSE 0]

RECURSIVE AddFrom(_, _, _, _)
AddFrom(a, b, i, carry) ==
    IF i > LimbCount THEN <<>>
    ELSE LET t == a[i] + b[i] + carry
         IN  <<t % LimbBase>> \o AddFrom(a, b, i + 1, t \div LimbBase)

BigAdd(a, b) == AddFrom(a, b, 1, 0)

\* a - b for a >= b
RECURSIVE SubFrom(_, _, _, _)
SubFrom(a, b, i, borrow) ==
    IF i > LimbCount THEN <<>>
    ELSE LET t == a[i] - b[i] - borrow
         IN  IF t < 0 THEN <<t + LimbBase>> \o SubFrom(a, b, i + 1, 1)
             ELSE <<t>> \o SubFrom(a, b, i + 1, 0)

BigSub(a, b) == SubFrom(a, b, 1, 0)

RECURSIVE LessFrom(_, _, _)
LessFrom(a, b, i) ==
    IF i = 0 THEN FALSE
    ELSE IF a[i] # b[i] THEN a[i] < b[i]
    ELSE LessFrom(a, b, i - 1)

BigLess(a, b) == LessFrom(a, b, LimbCount)

\* a divided by a small d: the quotient and the remainder
RECURSIVE DivFrom(_, _, _, _)
DivFrom(a, d, i, rem) ==
    IF i = 0 THEN [limbs |-> <<>>, rem |-> rem]
    ELSE LET t == rem * LimbBase + a[i]
             rest == DivFrom(a, d, i - 1, t % d)
         IN  [limbs |-> Append(rest.limbs, t \div d), rem |-> rest.rem]

BigDiv(a, d) == DivFrom(a, d, LimbCount, 0)

RECURSIVE BitLength(_)
BitLength(n) == IF n = 0 THEN 0 ELSE 1 + BitLength(n \div 2)

\* The number of bits of a magnitude
BigBits(a) ==
    LET used == {i \in 1..LimbCount : a[i] # 0}
    IN  IF used = {} THEN 0
        ELSE LET top == CHOOSE i \in used : \A j \in used : j <= i
             IN  (top - 1) * LimbBits + BitLength(a[top])

\* Round to nearest, ties to even, at 53 significant bits
RoundToDouble(a) ==
    LET dropped == BigBits(a) - Significand
    IN  IF dropped <= 0 THEN a
        ELSE LET unit == 2^dropped
                 rest == a[1] % unit
                 down == [a EXCEPT ![1] = @ - rest]
                 odd == (a[1] \div unit) % 2 = 1
             IN  IF 2 * rest > unit \/ (2 * rest = unit /\ odd)
                 THEN BigAdd(down, ShiftLeft(1, dropped))
                 ELSE down

\* The binary exponent e of p / q: 2^e <= p / q < 2^(e+1)
Exponent(p, q) ==
    CHOOSE e \in -12..12 :
        IF e >= 0 THEN q * 2^e <= p /\ p < q * 2^(e + 1)
        ELSE q <= p * 2^(-e) /\ p * 2^(-e - 1) < q

\* The unit in the last place of the double p / q is 2^-UnitShift(p, q)
UnitShift(p, q) == Significand - 1 - Exponent(p, q)

\* The double nearest to n / d, in units of 2^-shift
Quotient(n, d, shift) ==
    LET exact == BigDiv(ShiftLeft(n, shift), d)
        odd == exact.limbs[1] % 2 = 1
    IN  RoundToDouble(IF 2 * exact.rem > d \/ (2 * exact.rem = d /\ odd)
                      THEN BigAdd(exact.limbs, ShiftLeft(1, 0))
                      ELSE exact.limbs)

\* The integer n as a double, in units of 2^-shift
Double(n, shift) == [neg |-> n < 0, mag |-> ShiftLeft(Abs(n), shift)]

\* x + step for a positive step
Plus(x, step) ==
    IF ~x.neg THEN [neg |-> FALSE, mag |-> RoundToDouble(BigAdd(x.mag, step))]
    ELSE IF BigLess(step, x.mag)
    THEN [neg |-> TRUE, mag |-> RoundToDouble(BigSub(x.mag, step))]
    ELSE [neg |-> FALSE, mag |-> RoundToDouble(BigSub(step, x.mag))]

\* x <= y
AtMost(x, y) ==
    IF x.neg /\ ~y.neg THEN TRUE
    ELSE IF ~x.neg /\ y.neg THEN BigBits(x.mag) = 0 /\ BigBits(y.mag) = 0
    ELSE IF x.neg THEN ~BigLess(x.mag, y.mag)
    ELSE ~BigLess(y.mag, x.mag)

\* x after n more iterations that all pass the loop test, or the first x
\* that fails it
RECURSIVE Leap(_, _, _, _)
Leap(x, maxX, step, n) ==
    IF n = 0 \/ ~AtMost(x, maxX) THEN x
    ELSE Leap(Plus(x, step), maxX, step, n - 1)

\* The iterations from x on, at most LeapLength of them
RECURSIVE CountWithin(_, _, _, _)
CountWithin(x, maxX, step, n) ==
    IF n = 0 \/ ~AtMost(x, maxX) THEN 0
    ELSE 1 + CountWithin(Plus(x, step), maxX, step, n - 1)

LeapLength == 16

\* The iterations from x on, counted LeapLength at a time (so that the
\* evaluation does not nest as deep as the loop is long)
RECURSIVE CountFrom(_, _, _)
CountFrom(x, maxX, step) ==
    LET far == Leap(x, maxX, step, LeapLength)
    IN  IF AtMost(far, maxX)
        THEN LeapLength + CountFrom(far, maxX, step)
        ELSE CountWithin(x, maxX, step, LeapLength)

\* The number of x the loop visits, for step = p / q (as a double)
Iterations(minX, maxX, p, q) ==
    LET shift == UnitShift(p, q)
    IN  CountFrom(Double(minX, shift), Double(maxX, shift), Quotient(p, q, shift))

\* The domains graphs are sampled on: the default one, and ones with a
\* bound at zero, narrow or wide.
SampledDomains ==
    {<<-COORDINATE_RANGE, COORDINATE_RANGE>>, <<0, 10>>, <<-1, 1>>, <<0, 1>>,
     <<-50, 50>>}

\* Iterations for the loops of the model, each computed once
LoopLengths ==
    { <<domain, targetPoints,
        Iterations(domain[1], domain[2], domain[2] - domain[1], targetPoints)>> :
          domain \in SampledDomains,
          targetPoints \in {ReducedTargetPoints, DefaultTargetPoints} }

LoopLength(domain, targetPoints) ==
    (CHOOSE row \in LoopLengths : row[1] = domain /\ row[2] = targetPoints)[3]

-----------------------------------------------------------------------------
\* for (x = minX; x <= maxX; x += step): the kept samples, each named by its
\* grid index i (x = minX + i * step, step = (maxX - minX) / targetPoints).
\* The loop runs over i = 0..LoopLength - 1: the sum of doubles passes maxX
\* before the last grid point on some domains.  y is taken at the exact
\* grid point (the expressions and domains used have no sample whose y a
\* rounding of x would move across the filter).
SamplePoints(expression, domain, targetPoints) ==
    LET minX == domain[1]
        maxX == domain[2]
        Keep(i) == KeepSample(Evaluate(expression,
                                       minX * targetPoints + i * (maxX - minX),
                                       targetPoints))
    IN  SelectSeq([k \in 1..LoopLength(domain, targetPoints) |-> k - 1], Keep)

RECURSIVE GCD(_, _)
GCD(a, b) == IF b = 0 THEN a ELSE GCD(b, a % b)

\* The x of grid sample i, minX + i * (maxX - minX) / targetPoints, as a
\* fraction in lowest terms.
SampleX(domain, targetPoints, i) ==
    LET num == domain[1] * targetPoints + i * (domain[2] - domain[1])
        d == GCD(Abs(num), targetPoints)
    IN  <<num \div d, targetPoints \div d>>

\* The x of the points a sampling keeps, in order (y follows from x).
Vertices(indices, domain, targetPoints) ==
    [k \in 1..Len(indices) |-> SampleX(domain, targetPoints, indices[k])]

\* p.draw, case 'graph' of the completed drawings:
\* const targetPoints = domainSpan > 40 ? 120 : 200
CompletedTargetPoints(domainSpan) ==
    IF domainSpan > WideDomainSpan THEN ReducedTargetPoints
    ELSE DefaultTargetPoints

\* p.draw, case 'graph': the vertices between beginShape and endShape.
CompletedGraphVertices(graphData) ==
    LET domain == graphData.domain
        targetPoints == CompletedTargetPoints(domain[2] - domain[1])
    IN  Vertices(SamplePoints(graphData.expression, domain, targetPoints),
                 domain, targetPoints)

\* drawAnimatedGraph on a complete animation: every point of the instance.
AnimatedGraphVertices(animationState, domain) ==
    Vertices(animationState.points, domain, animationState.grid)

\* Math.floor((animationDurationMs / 1000) * 60)
DurationInFrames(ms) == (ms.num * FramesPerSecond) \div (ms.den * 1000)

\* (mutant: no test for an empty point sequence)
AnimateGraphKeepsEmpty(graphData, speed) ==
    LET domain == graphData.domain
        points == SamplePoints(graphData.expression, domain,
                               TargetPoints(domain[2] - domain[1], speed))
        animationDurationMs ==
            IF speed.num # 0 THEN speed
            ELSE IF graphData.animationSpeed.num # 0 THEN graphData.animationSpeed
            ELSE Ms(DefaultAnimationMs)
    IN  << [ id       |-> graphData.id,
             points   |-> points,
             grid     |-> TargetPoints(domain[2] - domain[1], speed),
             color    |-> graphData.color,
             progress |-> 0,
             duration |-> DurationInFrames(animationDurationMs) ] >>

\* animateGraph(p, graphData, onComplete, animationSpeed): <<>> stands for
\* null (onComplete is then called by the caller's model, see Dispatch), else
\* the one new GraphAnimationState.  a || b || c picks the first truthy.
\* The points are kept as grid indices, and grid is the number of steps of
\* the grid they were sampled on (their x is minX + i * (maxX - minX) / grid).
AnimateGraph(graphData, speed) ==
    LET domain == graphData.domain
        points == SamplePoints(graphData.expression, domain,
                               TargetPoints(domain[2] - domain[1], speed))
        animationDurationMs ==
            IF speed.num # 0 THEN speed
            ELSE IF graphData.animationSpeed.num # 0 THEN graphData.animationSpeed
            ELSE Ms(DefaultAnimationMs)
    IN  IF Len(points) = 0 THEN <<>>
        ELSE << [ id       |-> graphData.id,
                  points   |-> points,
                  grid     |-> TargetPoints(domain[2] - domain[1], speed),
                  color    |-> graphData.color,
                  progress |-> 0,
                  duration |-> DurationInFrames(animationDurationMs) ] >>

\* Math.floor((progress / duration) * points.length), with the IEEE results
\* of a division by zero: x/0 is +Infinity for x > 0 and NaN for x = 0, and
\* Infinity * 0 is NaN.
NumPoints(st) ==
    IF st.duration = 0
    THEN IF st.progress > 0 /\ Len(st.points) > 0
         THEN [kind |-> "infinite", n |-> 0]
         ELSE [kind |-> "nan", n |-> 0]
    ELSE [kind |-> "number", n |-> (st.progress * Len(st.points)) \div st.duration]

\* drawAnimatedGraph(p, animationState): how many vertices it draws and the
\* boolean it returns.  Every comparison with NaN is false.
\* (mutant: completion tested with > instead of >=)
DrawAnimatedGraphStrict(st) ==
    LET numPoints == NumPoints(st)
    IN  IF numPoints.kind = "number" /\ numPoints.n <= 0
        THEN [drawn |-> 0, isComplete |-> FALSE]
        ELSE IF numPoints.kind = "infinite"
                \/ (numPoints.kind = "number" /\ numPoints.n > Len(st.points))
        THEN [drawn |-> Len(st.points), isComplete |-> TRUE]
        ELSE [drawn |-> IF numPoints.kind = "number" THEN numPoints.n ELSE 0,
              isComplete |-> FALSE]

DrawAnimatedGraph(st) ==
    LET numPoints == NumPoints(st)
    IN  IF numPoints.kind = "number" /\ numPoints.n <= 0
        THEN [drawn |-> 0, isComplete |-> FALSE]
        ELSE IF numPoints.kind = "infinite"
                \/ (numPoints.kind = "number" /\ numPoints.n >= Len(st.points))
        THEN [drawn |-> Len(st.points), isComplete |-> TRUE]
        ELSE [drawn |-> IF numPoints.kind = "number" THEN numPoints.n ELSE 0,
              isComplete |-> FALSE]

-----------------------------------------------------------------------------
(* Canvas: the sketch (p.draw), clearCanvas and processQueue.  The handlers *)
(* run to completion, so each is a function from the canvas state c (a      *)
(* record of the canvas variables) to the canvas state it leaves.           *)

CanvasState ==
    [ processed |-> processedCommands, history |-> commandHistory,
      active |-> activeAnimations, completedRef |-> completedDrawingsRef,
      completed |-> completedDrawings, same |-> sameArray,
      colorIndex |-> colorIndex, looping |-> isLooping, paused |-> isPaused,
      elapsed |-> elapsed, fired |-> fired, dispatched |-> dispatched,
      outcome |-> outcome, lastRender |-> lastRender, rendered |-> rendered,
      ticked |-> ticked, hasActiveAnimations |-> FALSE ]

SetCanvas(c) ==
    /\ processedCommands' = c.processed
    /\ commandHistory' = c.history
    /\ activeAnimations' = c.active
    /\ completedDrawingsRef' = c.completedRef
    /\ completedDrawings' = c.completed
    /\ sameArray' = c.same
    /\ colorIndex' = c.colorIndex
    /\ isLooping' = c.looping
    /\ isPaused' = c.paused
    /\ elapsed' = c.elapsed
    /\ fired' = c.fired
    /\ dispatched' = c.dispatched
    /\ outcome' = c.outcome
    /\ lastRender' = c.lastRender
    /\ rendered' = c.rendered
    /\ ticked' = c.ticked

Remove(map, key) == [k \in (DOMAIN map) \ {key} |-> map[k]]

\* (mutant: the command drawn at once is not recorded as completed)
PushCompletedRefDrops(c, command) == c

\* completedDrawingsRef.current.push(command): the sketch's array sees the
\* push only while it is the same array.
PushCompletedRef(c, command) ==
    [c EXCEPT !.completedRef = Append(@, command),
              !.completed = IF c.same THEN Append(@, command) ELSE @]

\* (mutant: the completed command is pushed to no list)
PushCompletedNowhere(c, command) == c

\* completedDrawings.push(command) inside p.draw: the array of the closure.
PushCompleted(c, command) ==
    [c EXCEPT !.completed = Append(@, command),
              !.completedRef = IF c.same THEN Append(@, command) ELSE @]

\* (mutant: the tick does not advance the progress counter)
AdvanceAnimationKeepsProgress(c, index) ==
    LET animationState == c.active[index]
        result == DrawAnimatedGraph(animationState)
        id == animationState.id
        seen == [ progress |-> animationState.progress,
                  duration |-> animationState.duration,
                  n        |-> Len(animationState.points),
                  drawn    |-> result.drawn,
                  isComplete |-> result.isComplete ]
        c1 == [c EXCEPT !.lastRender[id] = seen]
    IN  IF result.isComplete
        THEN IF index + 1 <= Len(c1.history)
             THEN LET c2 == PushCompleted(c1, c1.history[index + 1])
                  IN  [c2 EXCEPT !.active = Remove(@, index),
                                 !.fired[id] = @ + 1,
                                 !.outcome[id] = "completed"]
             ELSE c1
        ELSE [c1 EXCEPT !.hasActiveAnimations = TRUE]

\* The body of activeAnimationsRef.current.forEach for one entry.
AdvanceAnimation(c, index) ==
    LET animationState == [c.active[index] EXCEPT !.progress = @ + 1]
        result == DrawAnimatedGraph(animationState)
        id == animationState.id
        seen == [ progress |-> animationState.progress,
                  duration |-> animationState.duration,
                  n        |-> Len(animationState.points),
                  drawn    |-> result.drawn,
                  isComplete |-> result.isComplete ]
        c1 == [c EXCEPT !.active[index] = animationState,
                        !.lastRender[id] = seen]
    IN  IF result.isComplete
        THEN IF index + 1 <= Len(c1.history)
             THEN LET c2 == PushCompleted(c1, c1.history[index + 1])
                  IN  [c2 EXCEPT !.active = Remove(@, index),
                                 !.fired[id] = @ + 1,
                                 !.outcome[id] = "completed"]
             ELSE c1
        ELSE [c1 EXCEPT !.hasActiveAnimations = TRUE]

\* (mutant: the iteration ends at the first entry it removes)
RECURSIVE AdvanceAllUntilRemoval(_, _)
AdvanceAllUntilRemoval(c, keys) ==
    IF keys = {} THEN c
    ELSE LET index == MinOf(keys)
             c1 == AdvanceAnimation(c, index)
         IN  IF index \notin DOMAIN c1.active THEN c1
             ELSE AdvanceAllUntilRemoval(c1, keys \ {index})

\* forEach visits the entries in insertion order (an entry deleted while it
\* is visited does not end the iteration); keys are inserted in increasing
\* order (commandHistory.length at dispatch).
RECURSIVE AdvanceAll(_, _)
AdvanceAll(c, keys) ==
    IF keys = {} THEN c
    ELSE LET index == MinOf(keys)
         IN  AdvanceAll(AdvanceAnimation(c, index), keys \ {index})

\* COLORS[completedDrawings.indexOf(cmd) % COLORS.length]: the colour p.draw
\* gives the command it draws as the position-th of the completed list (the
\* commands are distinct objects, so indexOf is position - 1).
CompletedColor(position) == COLORS[((position - 1) % Len(COLORS)) + 1]

\* (mutant: no test of the pause flag)
DrawIgnoresPause(c) ==
    IF c.elapsed < MIN_FRAME_DELTA THEN c
    ELSE LET c1 == [c EXCEPT !.elapsed = 0,
                             !.rendered = Ids(c.completed),
                             !.ticked = TRUE,
                             !.hasActiveAnimations = FALSE]
             c2 == AdvanceAll(c1, DOMAIN c1.active)
         IN  IF ~c2.hasActiveAnimations /\ DOMAIN c2.active = {}
             THEN [c2 EXCEPT !.looping = FALSE]
             ELSE c2

\* (mutant: the loop is left running when nothing is active)
DrawNeverStops(c) ==
    IF c.paused THEN c
    ELSE IF c.elapsed < MIN_FRAME_DELTA THEN c
    ELSE LET c1 == [c EXCEPT !.elapsed = 0,
                             !.rendered = Ids(c.completed),
                             !.ticked = TRUE,
                             !.hasActiveAnimations = FALSE]
         IN  AdvanceAll(c1, DOMAIN c1.active)

\* (mutant: lastFrameTime is taken before the throttle test)
DrawTakesTimeFirst(c) ==
    IF c.paused THEN c
    ELSE IF c.elapsed < MIN_FRAME_DELTA THEN [c EXCEPT !.elapsed = 0]
    ELSE LET c1 == [c EXCEPT !.elapsed = 0,
                             !.rendered = Ids(c.completed),
                             !.ticked = TRUE,
                             !.hasActiveAnimations = FALSE]
             c2 == AdvanceAll(c1, DOMAIN c1.active)
         IN  IF ~c2.hasActiveAnimations /\ DOMAIN c2.active = {}
             THEN [c2 EXCEPT !.looping = FALSE]
             ELSE c2

\* p.draw
Draw(c) ==
    IF c.paused THEN c
    ELSE IF c.elapsed < MIN_FRAME_DELTA THEN c
    ELSE LET c1 == [c EXCEPT !.elapsed = 0,
                             !.rendered = Ids(c.completed),
                             !.ticked = TRUE,
                             !.hasActiveAnimations = FALSE]
             c2 == AdvanceAll(c1, DOMAIN c1.active)
         IN  IF ~c2.hasActiveAnimations /\ DOMAIN c2.active = {}
             THEN [c2 EXCEPT !.looping = FALSE]
             ELSE c2

\* (mutant: a clear that runs the callbacks of the animations it drops)
ClearCanvasFiresCallbacks(c) ==
    [c EXCEPT !.completedRef = <<>>,
              !.same = FALSE,
              !.history = <<>>,
              !.active = <<>>,
              !.processed = {},
              !.colorIndex = 0,
              !.rendered = <<>>,
              !.looping = FALSE,
              !.fired = [id \in DOMAIN c.fired |->
                            IF c.outcome[id] = "active" THEN c.fired[id] + 1
                            ELSE c.fired[id]],
              !.outcome = [id \in DOMAIN c.outcome |->
                             IF c.outcome[id] = "active" THEN "discarded"
                             ELSE c.outcome[id]]]

\* clearCanvas, up to the onClear notification (the caller's part).
ClearCanvas(c) ==
    [c EXCEPT !.completedRef = <<>>,
              !.same = FALSE,
              !.history = <<>>,
              !.active = <<>>,
              !.processed = {},
              !.colorIndex = 0,
              !.rendered = <<>>,
              !.looping = FALSE,
              !.outcome = [id \in DOMAIN c.outcome |->
                             IF c.outcome[id] = "active" THEN "discarded"
                             ELSE c.outcome[id]]]

\* One iteration of processQueue's loop for an index not yet processed.
Dispatch(c, command, i, speed) ==
    LET colorString == COLORS[(c.colorIndex % Len(COLORS)) + 1]
        commandIndex == Len(c.history)
        c1 == [c EXCEPT !.colorIndex = @ + 1,
                        !.processed = @ \cup {i},
                        !.history = Append(@, command),
                        !.dispatched[command.id] = @ + 1]
    IN  IF command.type = "graph"
        THEN LET baseSpeed == IF command.animationSpeed.num # 0
                              THEN command.animationSpeed
                              ELSE Ms(DefaultAnimationMs)
                 adjustedSpeed == [num |-> baseSpeed.num * 100,
                                   den |-> baseSpeed.den * speed]
                 animationState ==
                     AnimateGraph([command EXCEPT
                                      !.color = IF command.color # "" THEN @ ELSE colorString,
                                      !.animationSpeed = adjustedSpeed],
                                  Multiplier(speed))
             IN  IF animationState = <<>>
                 THEN [c1 EXCEPT !.fired[command.id] = @ + 1]
                 ELSE [c1 EXCEPT !.active = (commandIndex :> animationState[1]) @@ @,
                                 !.outcome[command.id] = "active",
                                 !.looping = TRUE]
        ELSE Draw(PushCompletedRef(c1, command))

RECURSIVE ProcessFrom(_, _, _, _)
ProcessFrom(c, queue, i, speed) ==
    IF i >= Len(queue) THEN c
    ELSE ProcessFrom(IF i \in c.processed THEN c
                     ELSE Dispatch(c, queue[i + 1], i, speed),
                     queue, i + 1, speed)

\* The effect that runs processQueue when the drawingQueue prop changes.
ProcessQueue(c, queue, speed) ==
    IF Len(queue) = 0 THEN c ELSE ProcessFrom(c, queue, 0, speed)

-----------------------------------------------------------------------------
(* VoiceBoard: the commands processActions builds, and the board handlers.  *)

DefaultDomain == <<-COORDINATE_RANGE, COORDINATE_RANGE>>

Origin == <<0, 0>>

\* newCommands.push({ type: 'graph', data: graphData })
GraphCommand(expression) ==
    [ id |-> 0, type |-> "graph", expression |-> expression, content |-> "",
      subject |-> "", diagramType |-> "", point |-> Origin, color |-> "#0000ff",
      animationSpeed |-> Ms(DefaultAnimationMs), domain |-> DefaultDomain ]

\* newCommands.push({ type: 'annotation', data: annotationData })
Annotation(text, point) ==
    [ id |-> 0, type |-> "annotation", expression |-> "", content |-> text,
      subject |-> "", diagramType |-> "", point |-> point, color |-> "#000000",
      animationSpeed |-> Undefined, domain |-> DefaultDomain ]

\* subject === 'chemistry' ? 'molecule' : subject === 'physics' ? 'vector' : 'arrow'
DiagramType(subject) ==
    IF subject = "chemistry" THEN "molecule"
    ELSE IF subject = "physics" THEN "vector"
    ELSE "arrow"

\* newCommands.push({ type: 'diagram', data: diagramData })
Diagram(subject, content) ==
    [ id |-> 0, type |-> "diagram", expression |-> "", content |-> content,
      subject |-> subject, diagramType |-> DiagramType(subject), point |-> Origin,
      color |-> "#0000ff", animationSpeed |-> Undefined, domain |-> DefaultDomain ]

AnnotationCommand == Annotation("note", Origin)

DiagramCommand == Diagram("general", "arrow")

\* The commands of Spec: a graph with samples, a graph with none, and a
\* command that is drawn at once.
Commands == {GraphCommand("x*x"), GraphCommand("1/0"), AnnotationCommand}

Batches == UNION {[1..n -> Commands] : n \in 1..MaxBatch}

\* A TutorAction of a response.  A missing subject, visual_type, domain,
\* points or labels is "" or <<>>.
ActionItem(action, visualType, subject, content, domain, points, labels) ==
    [ action |-> action, visual_type |-> visualType, subject |-> subject,
      content |-> content, domain |-> domain, points |-> points, labels |-> labels ]

\* The commands processActions builds for one action (the switch of its loop).
MapAction(a) ==
    CASE a.action = "draw" /\ a.visual_type = "graph" ->
            << [GraphCommand(a.content) EXCEPT
                   !.domain = IF a.domain = <<>> THEN <<-10, 10>> ELSE a.domain] >>
      [] a.action = "draw" /\ a.visual_type = "diagram" ->
            << Diagram(IF a.subject = "" THEN "general" ELSE a.subject, a.content) >>
      [] a.action = "annotate" ->
            IF Len(a.points) > 0 /\ Len(a.labels) > 0
            THEN [idx \in 1..Len(a.points) |->
                     Annotation(IF idx <= Len(a.labels) /\ a.labels[idx] # ""
                                THEN a.labels[idx] ELSE a.content,
                                a.points[idx])]
            ELSE << Annotation(a.content,
                               IF Len(a.points) > 0 THEN a.points[1] ELSE Origin) >>
      [] OTHER -> <<>>

\* (mutant: only the first action of a response is mapped)
MapActionsFirstOnly(actions) ==
    IF actions = <<>> THEN <<>> ELSE MapAction(Head(actions))

\* newCommands after the loop over response.actions
RECURSIVE MapActions(_)
MapActions(actions) ==
    IF actions = <<>> THEN <<>>
    ELSE MapAction(Head(actions)) \o MapActions(Tail(actions))

\* aiResponseText.trim() is non-empty: every branch of the switch adds a line
\* but a draw action that is neither a graph nor a diagram.
HasResponseText(actions) ==
    \E i \in 1..Len(actions) :
        \/ actions[i].action \in {"annotate", "explain", "quiz"}
        \/ actions[i].action = "draw" /\ actions[i].visual_type \in {"graph", "diagram"}

\* The values processActions can be handed.
Response(actions) == [kind |-> "actions", actions |-> actions]

MissingResponse == [kind |-> "undefined", actions |-> <<>>]

MissingActions == [kind |-> "noActions", actions |-> <<>>]

NoCall == [response |-> [kind |-> "nocall", actions |-> <<>>], flip |-> FALSE]

\* The single-command action a command of Spec comes from.
ActionOf(command) ==
    CASE command.type = "graph" ->
            ActionItem("draw", "graph", "math", command.expression, <<>>, <<>>, <<>>)
      [] command.type = "diagram" ->
            ActionItem("draw", "diagram", command.subject, command.content, <<>>, <<>>, <<>>)
      [] OTHER ->
            ActionItem("annotate", "label", "math", command.content, <<>>, <<>>, <<>>)

ResponseOf(batch) == Response([i \in 1..Len(batch) |-> ActionOf(batch[i])])

Speeds == {100, 300}

TimeSteps == {MIN_FRAME_DELTA}

NoRender == [progress |-> 0, duration |-> 0, n |-> 0, drawn |-> 0, isComplete |-> FALSE]

\* The new command objects of one processActions call, and the observation
\* slots that go with them.
Fresh(batch) == [i \in 1..Len(batch) |-> [batch[i] EXCEPT !.id = nextId + i - 1]]

WithSlots(c, n) ==
    [c EXCEPT !.fired = @ \o [i \in 1..n |-> 0],
              !.dispatched = @ \o [i \in 1..n |-> 0],
              !.outcome = @ \o [i \in 1..n |-> "none"],
              !.lastRender = @ \o [i \in 1..n |-> NoRender]]

Record(op) ==
    hist' = [ op |-> op,
              before |-> IF op = "enqueue" THEN drawingQueue ELSE <<>>,
              popped |-> op = "undo" /\ Len(actionStack) > 0 ]

\* (mutant: slice(0, MAX_STACK_SIZE), which keeps the oldest snapshots)
CapKeepsOldest(newStack) ==
    SubSeq(newStack, 1, IF Len(newStack) < MAX_STACK_SIZE
                        THEN Len(newStack) ELSE MAX_STACK_SIZE)

\* (mutant: no cap)
CapMissing(newStack) == newStack

\* newStack.slice(-MAX_STACK_SIZE)
Cap(newStack) == LastN(newStack, MAX_STACK_SIZE)

\* (mutant: the snapshot taken after the append)
PushSnapshotOfUpdated(stack, prev, updated) == Cap(Append(stack, updated))

\* (mutant: the updater run twice, so the snapshot is pushed twice)
PushSnapshotTwice(stack, prev, updated) == Cap(Append(Append(stack, prev), prev))

\* setActionStack((stack) => [...stack, [...prev]].slice(-MAX_STACK_SIZE))
PushSnapshot(stack, prev, updated) == Cap(Append(stack, prev))

\* processActions, inside "if (newCommands.length > 0)": the two state updates
\* and the Canvas effect they trigger.
EnqueueBatch(batch) ==
    LET newCommands == Fresh(batch)
        updated == drawingQueue \o newCommands
    IN  /\ drawingQueue' = updated
        /\ actionStack' = PushSnapshot(actionStack, drawingQueue, updated)
        /\ nextId' = nextId + Len(batch)
        /\ SetCanvas(ProcessQueue(
               [WithSlots(CanvasState, Len(batch)) EXCEPT !.ticked = FALSE],
               updated, animationSpeed))
        /\ Record("enqueue")
        /\ scenario' = IF scenario.enq >= 0 /\ scenario.undo = 0
                       THEN [ enq |-> scenario.enq + 1, undo |-> 0,
                              first |-> IF scenario.enq = 0 THEN updated
                                        ELSE scenario.first ]
                       ELSE [enq |-> -1, undo |-> 0, first |-> <<>>]
        /\ UNCHANGED <<animationSpeed, lastClear>>

\* (mutant: an empty actions list is not taken for a failure)
IsEmptyInterpretationMissingOnly(response) == response.kind # "actions"

\* !response || !response.actions || response.actions.length === 0
IsEmptyInterpretation(response) ==
    \/ response.kind = "undefined"
    \/ response.kind = "noActions"
    \/ Len(response.actions) = 0

\* processActions(response)
ProcessActions(response) ==
    /\ lastCall' = [response |-> response, flip |-> ~lastCall.flip]
    /\ IF IsEmptyInterpretation(response)
       THEN /\ chatMessages' = Append(chatMessages, "error")
            /\ UNCHANGED <<boardVars, canvasVars, animationSpeed, nextId, hist,
                           lastClear, scenario>>
       ELSE LET newCommands == MapActions(response.actions)
            IN  /\ chatMessages' = IF HasResponseText(response.actions)
                                   THEN Append(chatMessages, "ai")
                                   ELSE chatMessages
                /\ IF Len(newCommands) > 0
                   THEN EnqueueBatch(newCommands)
                   ELSE UNCHANGED <<boardVars, canvasVars, animationSpeed, nextId,
                                    hist, lastClear, scenario>>
    /\ UNCHANGED serverVars

\* processActions called with a response whose actions all draw.
Enqueue ==
    \E batch \in Batches :
        /\ nextId + Len(batch) - 1 <= MaxCmds
        /\ ProcessActions(ResponseOf(batch))
        /\ UNCHANGED micVars

\* The snapshot handleUndo restores: actionStack[actionStack.length - 1]
PreviousState(stack) == stack[Len(stack)]

\* handleUndo (the Undo button or the U key)
Undo ==
    /\ IF Len(actionStack) > 0
       THEN /\ drawingQueue' = PreviousState(actionStack)
            /\ actionStack' = SubSeq(actionStack, 1, Len(actionStack) - 1)
            /\ SetCanvas(ProcessQueue([CanvasState EXCEPT !.ticked = FALSE],
                                      PreviousState(actionStack), animationSpeed))
       ELSE /\ UNCHANGED boardVars
            /\ SetCanvas([CanvasState EXCEPT !.ticked = FALSE])
    /\ Record("undo")
    /\ scenario' = IF scenario.enq >= 0 /\ scenario.undo < scenario.enq
                   THEN [scenario EXCEPT !.undo = @ + 1]
                   ELSE scenario
    /\ UNCHANGED <<animationSpeed, nextId, lastClear, chatMessages, lastCall>>
    /\ UNCHANGED <<serverVars, micVars>>

NoScenario == [enq |-> 0, undo |-> 0, first |-> <<>>]

\* handleClearCanvas: setDrawingQueue([]); setActionStack([])
HandleClearCanvasBoard ==
    /\ drawingQueue' = <<>>
    /\ actionStack' = <<>>

\* The Clear Board button of the Canvas: clearCanvas, whose onClear is
\* handleClearCanvas.
ClearBoard ==
    /\ SetCanvas([ClearCanvas(CanvasState) EXCEPT !.ticked = FALSE])
    /\ HandleClearCanvasBoard
    /\ Record("clear")
    /\ lastClear' = [kind |-> "clearBoard", upTo |-> nextId - 1]
    /\ scenario' = NoScenario
    /\ lastCall' = NoCall
    /\ UNCHANGED <<animationSpeed, nextId, chatMessages>>
    /\ UNCHANGED <<serverVars, micVars>>

\* The C keyboard shortcut: handleClearCanvas alone.
KeyClear ==
    /\ HandleClearCanvasBoard
    /\ SetCanvas([CanvasState EXCEPT !.ticked = FALSE])
    /\ Record("clear")
    /\ lastClear' = [kind |-> "handleClearCanvas", upTo |-> nextId - 1]
    /\ scenario' = NoScenario
    /\ lastCall' = NoCall
    /\ UNCHANGED <<animationSpeed, nextId, chatMessages>>
    /\ UNCHANGED <<serverVars, micVars>>

\* handleNewChat (New Chat/Board): clears the chat and calls handleClearCanvas.
NewChat ==
    /\ chatMessages' = <<>>
    /\ HandleClearCanvasBoard
    /\ SetCanvas([CanvasState EXCEPT !.ticked = FALSE])
    /\ Record("clear")
    /\ lastClear' = [kind |-> "handleClearCanvas", upTo |-> nextId - 1]
    /\ scenario' = NoScenario
    /\ lastCall' = NoCall
    /\ UNCHANGED <<animationSpeed, nextId>>
    /\ UNCHANGED <<serverVars, micVars>>

\* handleSpeedChange / the + and - keys
SetSpeed ==
    /\ \E s \in Speeds : s # animationSpeed /\ animationSpeed' = s
    /\ UNCHANGED <<boardVars, canvasVars, nextId, hist, lastClear, scenario,
                   chatMessages, lastCall>>
    /\ UNCHANGED <<serverVars, micVars>>

-----------------------------------------------------------------------------
(* The host: frame callbacks, time, visibility and resize.                  *)

\* A frame callback of the running p5 loop calls p.draw.
Frame ==
    /\ isLooping
    /\ SetCanvas(Draw(CanvasState))
    /\ UNCHANGED <<boardVars, animationSpeed, nextId, hist, lastClear, scenario,
                   chatMessages, lastCall>>
    /\ UNCHANGED <<serverVars, micVars>>

\* p.windowResized: resizeCanvas and redraw(), which calls p.draw once.
WindowResized ==
    /\ SetCanvas(Draw(CanvasState))
    /\ UNCHANGED <<boardVars, animationSpeed, nextId, hist, lastClear, scenario,
                   chatMessages, lastCall>>
    /\ UNCHANGED <<serverVars, micVars>>

\* Time passes (only its effect on the throttle test is kept).
TimePasses ==
    /\ elapsed < MIN_FRAME_DELTA
    /\ \E dt \in TimeSteps :
          elapsed' = IF elapsed + dt > MIN_FRAME_DELTA THEN MIN_FRAME_DELTA
                     ELSE elapsed + dt
    /\ UNCHANGED <<boardVars, animationSpeed, processedCommands, commandHistory,
                   activeAnimations, completedDrawingsRef, completedDrawings,
                   sameArray, colorIndex, isLooping, isPaused, fired, dispatched,
                   outcome, lastRender, rendered, ticked, nextId, hist,
                   lastClear, scenario, chatMessages, lastCall>>
    /\ UNCHANGED <<serverVars, micVars>>

\* onVis: the visibilitychange listener
VisibilityChange ==
    /\ \E hidden \in BOOLEAN :
          /\ hidden # isPaused
          /\ isPaused' = hidden
          /\ isLooping' = IF ~hidden /\ DOMAIN activeAnimations # {}
                          THEN TRUE ELSE isLooping
    /\ UNCHANGED <<boardVars, animationSpeed, processedCommands, commandHistory,
                   activeAnimations, completedDrawingsRef, completedDrawings,
                   sameArray, colorIndex, elapsed, fired, dispatched, outcome,
                   lastRender, rendered, ticked, nextId, hist, lastClear,
                   scenario, chatMessages, lastCall>>
    /\ UNCHANGED <<serverVars, micVars>>

-----------------------------------------------------------------------------
(* The API server.  A string is the sequence of its UTF-16 code units; a    *)
(* JSON value is a record of its type, its characters (a string) and its    *)
(* entries (an object or an array, keyed by name or by index).              *)

MAX_TRANSCRIPT == 500

MIN_API_KEY == 20

MAX_HISTORY == 20

RECENT_HISTORY == 10

String(chars) == [type |-> "string", chars |-> chars, entries |-> <<>>]

Object(entries) == [type |-> "object", chars |-> <<>>, entries |-> entries]

Array(entries) == [type |-> "array", chars |-> <<>>, entries |-> entries]

Missing == [type |-> "undefined", chars |-> <<>>, entries |-> <<>>]

Entry(key, value) == [key |-> key, value |-> value]

Chars(n, code) == [i \in 1..n |-> code]

\* body[key]
Lookup(body, key) ==
    LET found == {i \in 1..Len(body.entries) : body.entries[i].key = key}
    IN  IF found = {} THEN Missing ELSE body.entries[MinOf(found)].value

\* The code units String.prototype.trim removes (WhiteSpace and
\* LineTerminator of ECMAScript).
WhiteSpace ==
    {9, 10, 11, 12, 13, 32, 160, 5760, 8232, 8233, 8239, 8287, 12288, 65279}
        \cup (8192..8202)

\* The first index from i upwards, and the last from i downwards, of a code
\* unit that is not white space.
RECURSIVE FirstSolid(_, _)
FirstSolid(chars, i) ==
    IF i > Len(chars) \/ chars[i] \notin WhiteSpace THEN i
    ELSE FirstSolid(chars, i + 1)

RECURSIVE LastSolid(_, _)
LastSolid(chars, i) ==
    IF i < 1 \/ chars[i] \notin WhiteSpace THEN i
    ELSE LastSolid(chars, i - 1)

Trim(chars) == SubSeq(chars, FirstSolid(chars, 1), LastSolid(chars, Len(chars)))

\* sanitizeTranscript(transcript)
SanitizeTranscript(transcript) ==
    LET sanitized == Trim(transcript)
    IN  IF Len(sanitized) > MAX_TRANSCRIPT
        THEN SubSeq(sanitized, 1, MAX_TRANSCRIPT)
        ELSE sanitized

\* isASCIIPrintable(str)
IsASCIIPrintable(str) ==
    \A i \in 1..Len(str) :
        ~(str[i] < 9 \/ (str[i] > 13 /\ str[i] < 32) \/ str[i] > 126)

\* validateASCIIPayload(body): the loop over Object.entries(body) from the
\* i-th entry on; it returns at the first field that fails.
RECURSIVE ValidateEntries(_, _)
ValidateEntries(entries, i) ==
    IF i > Len(entries) THEN [valid |-> TRUE, field |-> ""]
    ELSE LET key == entries[i].key
             value == entries[i].value
         IN  IF key = "apiKey" THEN ValidateEntries(entries, i + 1)
             ELSE IF value.type = "string"
             THEN IF ~IsASCIIPrintable(value.chars)
                  THEN [valid |-> FALSE, field |-> key]
                  ELSE ValidateEntries(entries, i + 1)
             ELSE IF value.type \in {"object", "array"}
             THEN LET nested == ValidateEntries(value.entries, 1)
                  IN  IF ~nested.valid THEN nested
                      ELSE ValidateEntries(entries, i + 1)
             ELSE ValidateEntries(entries, i + 1)

ValidateASCIIPayload(body) ==
    IF body.type \notin {"object", "array"}
    THEN [valid |-> FALSE, field |-> ""]
    ELSE ValidateEntries(body.entries, 1)

\* sanitizeTranscriptTransform: the checks run on the string as sent, the
\* transform on a string that passed them.
ParseTranscript(value) ==
    IF value.type = "string"
       /\ Len(value.chars) >= 1
       /\ Len(value.chars) <= MAX_TRANSCRIPT
    THEN [success |-> TRUE, data |-> SanitizeTranscript(value.chars)]
    ELSE [success |-> FALSE, data |-> <<>>]

\* (mutant: the length of the API key is not checked)
SafeParseAnyKey(body) ==
    LET transcript == ParseTranscript(Lookup(body, "transcript"))
        apiKey == Lookup(body, "apiKey")
    IN  IF body.type = "object" /\ transcript.success /\ apiKey.type = "string"
        THEN [success |-> TRUE, transcript |-> transcript.data, apiKey |-> apiKey.chars]
        ELSE [success |-> FALSE, transcript |-> <<>>, apiKey |-> <<>>]

\* interpretRequestSchema.safeParse(body)
SafeParse(body) ==
    LET transcript == ParseTranscript(Lookup(body, "transcript"))
        apiKey == Lookup(body, "apiKey")
    IN  IF body.type = "object"
           /\ transcript.success
           /\ apiKey.type = "string"
           /\ Len(apiKey.chars) >= MIN_API_KEY
        THEN [success |-> TRUE, transcript |-> transcript.data, apiKey |-> apiKey.chars]
        ELSE [success |-> FALSE, transcript |-> <<>>, apiKey |-> <<>>]

\* utils/sessionStore.ts: the store is a function from session ids to
\* histories; a message is [role, content].
GetSession(store, sessionId) ==
    IF sessionId \in DOMAIN store THEN store ELSE (sessionId :> <<>>) @@ store

\* (mutant: the oldest 20 messages are kept, slice(0, 20))
AddMessageKeepsOldest(store, sessionId, role, content) ==
    LET created == GetSession(store, sessionId)
        pushed == Append(created[sessionId], [role |-> role, content |-> content])
    IN  [created EXCEPT ![sessionId] =
            IF Len(pushed) > MAX_HISTORY THEN SubSeq(pushed, 1, MAX_HISTORY) ELSE pushed]

\* addMessage(sessionId, role, content)
AddMessage(store, sessionId, role, content) ==
    LET created == GetSession(store, sessionId)
        pushed == Append(created[sessionId], [role |-> role, content |-> content])
    IN  [created EXCEPT ![sessionId] =
            IF Len(pushed) > MAX_HISTORY THEN LastN(pushed, MAX_HISTORY) ELSE pushed]

\* The messages interpretPrompt sends: the system prompt (its fixed text is
\* left out), the last RECENT_HISTORY messages of conversationHistory and
\* the prompt.
Messages(prompt, conversationHistory) ==
    LET recentHistory == LastN(conversationHistory, RECENT_HISTORY)
    IN  <<[role |-> "system", content |-> <<>>]>>
        \o [i \in 1..Len(recentHistory) |->
               [role |-> IF recentHistory[i].role = "assistant"
                         THEN "assistant" ELSE "user",
                content |-> recentHistory[i].content]]
        \o <<[role |-> "user", content |-> prompt]>>

\* What awaiting interpretPrompt yields: a completion (with a function call
\* whose arguments parse to a valid response, to something else, or not at
\* all; with another function's call or none), or the error it throws after
\* the retries.
ActionNames ==
    [ draw |-> <<100, 114, 97, 119>>, explain |-> <<101, 120, 112, 108, 97, 105, 110>> ]

ModelActions ==
    { <<>>,
      <<[action |-> "draw", content |-> <<120>>]>>,
      <<[action |-> "draw", content |-> <<120>>],
        [action |-> "explain", content |-> <<111, 107>>]>> }

Completions ==
    {[kind |-> "actions", actions |-> actions, message |-> "", status |-> 0] :
        actions \in ModelActions}
    \cup {[kind |-> k, actions |-> <<>>, message |-> "", status |-> 0] :
             k \in {"noFunctionCall", "otherFunction", "unparsable", "invalidShape"}}

Thrown(message, status) ==
    [kind |-> "error", actions |-> <<>>, message |-> message, status |-> status]

Errors ==
    { Thrown("Invalid API key. Please check your OpenAI API key.", 0),
      Thrown("OpenAI rate limit exceeded. Please try again later.", 0),
      Thrown("OpenAI API error: Connection error.", 0),
      Thrown("OpenAI API error: Unexpected token < in JSON", 0),
      Thrown("Request timeout", 0),
      Thrown("", 400) }

\* err.message?.includes(word), for the messages above
Includes(message, word) ==
    CASE word = "API key"    -> message = "Invalid API key. Please check your OpenAI API key."
      [] word = "rate limit" -> message = "OpenAI rate limit exceeded. Please try again later."
      [] word = "JSON"       -> message = "OpenAI API error: Unexpected token < in JSON"
      [] word = "timeout"    -> message = "Request timeout"
      [] OTHER               -> FALSE

\* The catch block of router.post('/'): the status and the error it answers.
ErrorReply(err) ==
    IF Includes(err.message, "API key") \/ Includes(err.message, "authentication")
    THEN [status |-> 401, error |-> "Invalid API key"]
    ELSE IF Includes(err.message, "rate limit") \/ err.status = 429
    THEN [status |-> 429, error |-> "OpenAI rate limit exceeded. Please try again later."]
    ELSE IF Includes(err.message, "parse") \/ Includes(err.message, "JSON")
    THEN [status |-> 502, error |-> "OpenAI response parsing failed"]
    ELSE IF Includes(err.message, "timeout") \/ Includes(err.message, "Request timeout")
    THEN [status |-> 504, error |-> "Request timeout. Please try again."]
    ELSE IF err.status = 400
    THEN [status |-> 400, error |-> "Invalid request to OpenAI API"]
    ELSE [status |-> 500, error |-> "Could not interpret request"]

\* validated.actions.map((a) => `${a.action}: ${a.content}`).join('; ')
RECURSIVE ResponseText(_)
ResponseText(actions) ==
    IF actions = <<>> THEN <<>>
    ELSE ActionNames[Head(actions).action] \o <<58, 32>> \o Head(actions).content
         \o (IF Len(actions) > 1 THEN <<59, 32>> ELSE <<>>)
         \o ResponseText(Tail(actions))

\* The session a request works on: req.body.sessionId || requestId
SessionOf(body, requestId) ==
    LET sessionId == Lookup(body, "sessionId")
    IN  IF sessionId.type = "string" /\ Len(sessionId.chars) > 0
        THEN [given |-> TRUE, chars |-> sessionId.chars, request |-> 0]
        ELSE [given |-> FALSE, chars |-> <<>>, request |-> requestId]

NoReply ==
    [ request |-> 0, body |-> Missing, routed |-> FALSE, status |-> 0, error |-> "",
      prompt |-> <<>>, messages |-> <<>> ]

\* A POST /api/interpret request with a JSON body: the ASCII middleware of
\* index.ts, then router.post('/') up to its await of the model (the first
\* makeRequest of interpretPrompt has sent the messages).  getHistory
\* returns the session's array itself, which addMessage pushes onto before
\* interpretPrompt reads it.
PostInterpret(body) ==
    LET requestId == requestCount + 1
        validation == ValidateASCIIPayload(body)
        parsed == SafeParse(body)
        sessionId == SessionOf(body, requestId)
        sessionHistory == Append(GetSession(sessions, sessionId)[sessionId],
                                 [role |-> "user", content |-> parsed.transcript])
        messages == Messages(parsed.transcript, sessionHistory)
        request == [NoReply EXCEPT !.request = requestId, !.body = body]
    IN  /\ requestCount' = requestId
        /\ IF ~validation.valid
           THEN /\ lastReply' = [request EXCEPT !.status = 400,
                                              !.error = "Invalid payload"]
                /\ UNCHANGED <<sessions, inflight>>
           ELSE IF ~parsed.success
           THEN /\ lastReply' = [request EXCEPT !.routed = TRUE,
                                              !.status = 400,
                                              !.error = "Invalid input"]
                /\ UNCHANGED <<sessions, inflight>>
           ELSE /\ sessions' = AddMessage(sessions, sessionId, "user", parsed.transcript)
                /\ inflight' = (requestId :> [ request EXCEPT
                                                 !.routed = TRUE,
                                                 !.prompt = parsed.transcript,
                                                 !.messages = messages ]) @@ inflight
                /\ lastReply' = [request EXCEPT !.routed = TRUE,
                                              !.prompt = parsed.transcript,
                                              !.messages = messages]
        /\ UNCHANGED <<clientVars, utilVars>>

\* router.post('/') after the await: the reply to the request.
FinishInterpret(requestId, result) ==
    LET request == inflight[requestId]
        sessionId == SessionOf(request.body, requestId)
    IN  /\ inflight' = Remove(inflight, requestId)
        /\ IF result.kind = "error"
           THEN /\ lastReply' = [request EXCEPT !.status = ErrorReply(result).status,
                                              !.error = ErrorReply(result).error]
                /\ UNCHANGED sessions
           ELSE IF result.kind \in {"noFunctionCall", "otherFunction", "unparsable"}
           THEN /\ lastReply' = [request EXCEPT !.status = 200]
                /\ UNCHANGED sessions
           ELSE /\ sessions' = AddMessage(sessions, sessionId, "assistant",
                                          ResponseText(result.actions))
                /\ lastReply' = [request EXCEPT !.status = 200]
        /\ UNCHANGED <<requestCount, clientVars, utilVars>>

-----------------------------------------------------------------------------
(* GET /api/interpret/stream.  The response is the events written to it    *)
(* with res.write before res.end() was called, the events written to it     *)
(* after that, and the calls of res.end().                                  *)

NoStream ==
    [ request |-> 0, query |-> Missing, pc |-> "idle", path |-> "",
      written |-> <<>>, afterEnd |-> <<>>, ended |-> FALSE, endCalls |-> 0 ]

\* sendSSE(res, event, data): res.write
SendSSE(res, event) ==
    IF res.ended THEN [res EXCEPT !.afterEnd = Append(@, event)]
    ELSE [res EXCEPT !.written = Append(@, event)]

\* res.end()
ResEnd(res) == [res EXCEPT !.ended = TRUE, !.endCalls = @ + 1]

\* sendSSE(res, 'end', {}); res.end();
EndStream(res) == ResEnd(SendSSE(res, "end"))

\* finally { sendSSE(res, 'end', {}); res.end(); }
Finally(res) == EndStream(res)

\* router.get('/stream') up to its await of the model, for the query
\* parameters given (strings).
GetStream(query) ==
    LET requestId == requestCount + 1
        transcript == Lookup(query, "transcript")
        apiKey == Lookup(query, "apiKey")
        missing == \/ transcript.type # "string" \/ Len(transcript.chars) = 0
                   \/ apiKey.type # "string" \/ Len(apiKey.chars) = 0
        parsed == SafeParse(Object(<<Entry("transcript", String(transcript.chars)),
                                     Entry("apiKey", String(apiKey.chars))>>))
        sessionId == SessionOf(query, requestId)
        res == [NoStream EXCEPT !.request = requestId, !.query = query]
    IN  /\ stream.pc # "awaiting"
        /\ requestCount' = requestId
        /\ IF missing \/ ~parsed.success
           THEN /\ stream' = [EndStream(SendSSE(res, "error")) EXCEPT
                                 !.pc = "done",
                                 !.path = IF missing THEN "missing parameters"
                                          ELSE "invalid input"]
                /\ UNCHANGED sessions
           ELSE /\ sessions' = AddMessage(sessions, sessionId, "user", parsed.transcript)
                /\ stream' = [SendSSE(res, "status") EXCEPT !.pc = "awaiting"]
        /\ UNCHANGED <<inflight, lastReply, sampled, retry, addedLog, tutorBrain,
                       clientVars>>

\* router.get('/stream') after the await: the try block from the result of
\* interpretPrompt on, the catch block and the finally block (which also
\* runs after a return inside try).
StreamResult(result) ==
    LET sessionId == SessionOf(stream.query, stream.request)
    IN  /\ stream.pc = "awaiting"
        /\ IF result.kind = "error"
           THEN /\ stream' = [Finally(SendSSE(stream, "error")) EXCEPT
                                 !.pc = "done", !.path = "thrown error"]
                /\ UNCHANGED sessions
           ELSE IF result.kind \in {"noFunctionCall", "otherFunction"}
           THEN /\ stream' = [Finally(ResEnd(SendSSE(SendSSE(stream, "actions"), "end")))
                                 EXCEPT !.pc = "done", !.path = "no function call"]
                /\ UNCHANGED sessions
           ELSE IF result.kind = "unparsable"
           THEN /\ stream' = [Finally(ResEnd(SendSSE(SendSSE(stream, "error"), "end")))
                                 EXCEPT !.pc = "done", !.path = "unparsable arguments"]
                /\ UNCHANGED sessions
           ELSE /\ sessions' = AddMessage(sessions, sessionId, "assistant",
                                          ResponseText(result.actions))
                /\ stream' = [Finally(SendSSE(stream, "actions")) EXCEPT
                                 !.pc = "done", !.path = "success"]
        /\ UNCHANGED <<inflight, requestCount, lastReply, sampled, retry, addedLog,
                       tutorBrain,
                       clientVars>>

-----------------------------------------------------------------------------
(* Server utilities: sampleFunction.  A step is the double nearest to the   *)
(* fraction p / q written in the call; start and end are integers.          *)

\* The x the loop of sampleFunction visits from x on: at most n of them
RECURSIVE VisitedWithin(_, _, _, _)
VisitedWithin(x, end, step, n) ==
    IF n = 0 \/ ~AtMost(x, end) THEN <<>>
    ELSE <<x>> \o VisitedWithin(Plus(x, step), end, step, n - 1)

\* for (let x = start; x <= end; x += step): every x visited, in order
\* (collected LeapLength at a time)
RECURSIVE VisitedFrom(_, _, _)
VisitedFrom(x, end, step) ==
    LET part == VisitedWithin(x, end, step, LeapLength)
    IN  IF Len(part) < LeapLength THEN part
        ELSE part \o VisitedFrom(Plus(part[LeapLength], step), end, step)

\* func(x) for a double x: its kind only.  1/x is infinite at zero alone;
\* x and x*x are finite on the ranges sampled; NaN is not a number anywhere.
KindOf(func, x) ==
    CASE func = "1/x"  -> IF BigBits(x.mag) = 0 THEN "infinite" ELSE "number"
      [] func = "NaN"  -> "nan"
      [] OTHER         -> "number"

\* sampleFunction(func, start, end, step): the points pushed, each with the
\* number of the iteration that pushed it (from 0) and its x, a double in
\* units of 2^-shift (its y is func(x), a finite number).
SampleFunction(func, start, end, p, q) ==
    LET shift == UnitShift(p, q)
        visited == VisitedFrom(Double(start, shift), Double(end, shift),
                               Quotient(p, q, shift))
        Keep(k) == KindOf(func, visited[k]) = "number"
    IN  [k \in 1..Len(SelectSeq([k \in 1..Len(visited) |-> k], Keep)) |->
            LET at == SelectSeq([j \in 1..Len(visited) |-> j], Keep)[k]
            IN  [index |-> at - 1, x |-> visited[at], shift |-> shift]]

NotSampled ==
    [func |-> "", start |-> 0, end |-> 0, p |-> 0, q |-> 1, points |-> <<>>]

-----------------------------------------------------------------------------
(* Server utilities: callWithRetry and withTimeout.  Attempts are numbered  *)
(* as the loop variable i, from 0.  The promise fn returned for attempt k   *)
(* stays pending (k is in pending) until fn resolves or rejects it; the     *)
(* timer withTimeout set for attempt k stays set (k is in timers) until it  *)
(* fires: nothing clears it and nothing cancels fn.                         *)

RETRY_TIMEOUT_MS == 20000

BACKOFF_MS == 300

RequestTimeout == [kind |-> "timeout", attempt |-> 0]

NotCalled ==
    [ pc |-> "idle", attempts |-> 0, timeoutMs |-> 0, i |-> 0, calls |-> 0,
      pending |-> {}, timers |-> {}, failures |-> <<>>, slept |-> <<>>,
      settled |-> [kind |-> "none", attempt |-> 0] ]

\* (mutant: the first wait is skipped, 300 * i)
BackoffFromZero(i) == BACKOFF_MS * i

\* 300 * (i + 1)
Backoff(i) == BACKOFF_MS * (i + 1)

\* return await withTimeout(fn(), timeoutMs): fn is invoked, its promise
\* and the timer of the race are pending.
Attempt(r, i) ==
    [r EXCEPT !.pc = "awaiting", !.i = i, !.calls = @ + 1,
              !.pending = @ \cup {i}, !.timers = @ \cup {i}]

\* catch (err): throw it after the last attempt, else wait for the backoff.
Catch(r, err) ==
    IF r.i = r.attempts - 1
    THEN [r EXCEPT !.pc = "rejected", !.failures = Append(@, err), !.settled = err]
    ELSE [r EXCEPT !.pc = "sleeping", !.failures = Append(@, err),
                   !.slept = Append(@, Backoff(r.i))]

\* callWithRetry(fn, attempts, timeoutMs) up to its first await
CallWithRetry(attempts, timeoutMs) ==
    /\ retry.pc = "idle"
    /\ retry' = Attempt([NotCalled EXCEPT !.attempts = attempts,
                                          !.timeoutMs = timeoutMs], 0)

\* fn's promise of attempt k resolves: the race of that attempt settles
\* with the value if it is still unsettled, which is the case while
\* callWithRetry awaits it.
FnResolves(k) ==
    /\ k \in retry.pending
    /\ retry' = IF retry.pc = "awaiting" /\ retry.i = k
                THEN [retry EXCEPT !.pending = @ \ {k}, !.pc = "resolved",
                                   !.settled = [kind |-> "value", attempt |-> k]]
                ELSE [retry EXCEPT !.pending = @ \ {k}]

\* fn's promise of attempt k rejects.
FnRejects(k) ==
    /\ k \in retry.pending
    /\ retry' = IF retry.pc = "awaiting" /\ retry.i = k
                THEN Catch([retry EXCEPT !.pending = @ \ {k}],
                           [kind |-> "error", attempt |-> k])
                ELSE [retry EXCEPT !.pending = @ \ {k}]

\* The timer of attempt k fires, timeoutMs after the attempt began: reject
\* with 'Request timeout', which settles the race if fn has not.
TimeoutFires(k) ==
    /\ k \in retry.timers
    /\ retry' = IF retry.pc = "awaiting" /\ retry.i = k
                THEN Catch([retry EXCEPT !.timers = @ \ {k}], RequestTimeout)
                ELSE [retry EXCEPT !.timers = @ \ {k}]

\* The backoff timer fires: the loop goes on with i + 1.
BackoffEnds ==
    /\ retry.pc = "sleeping"
    /\ retry' = Attempt(retry, retry.i + 1)

-----------------------------------------------------------------------------
(* Specifications *)

\* The server has started: no session, no request yet, no utility called.
ServerInit ==
    /\ sessions = <<>>
    /\ inflight = <<>>
    /\ requestCount = 0
    /\ lastReply = NoReply
    /\ sampled = NotSampled
    /\ retry = NotCalled
    /\ stream = NoStream
    /\ addedLog = <<>>

\* const DEBOUNCE_MS = 1500
DEBOUNCE_MS == 1500

\* No transcript was handed to handleTranscript yet.
NotSubmitted == [transcript |-> <<>>, at |-> 0, path |-> "none"]

\* <MicButton disabled={loading || isDemoMode}
\*            requiresApiKey={apiKeyMissing && !isDemoMode} />
MicButtonProps(stored, demo, loading) ==
    [requiresApiKey |-> ~stored /\ ~demo, disabled |-> loading \/ demo]

\* VoiceBoard mounts with or without a stored key.
MicInit(stored) ==
    /\ apiKeyStored = stored
    /\ showApiKeyInput = ~stored
    /\ isDemoMode = FALSE
    /\ micProps = MicButtonProps(stored, FALSE, FALSE)
    /\ isListening = FALSE
    /\ final = <<>>
    /\ pending = "none"
    /\ tutorBrain = [lastTranscriptRef |-> <<>>, lastTimestampRef |-> 0,
                     now |-> DEBOUNCE_MS, calls |-> <<>>, submitted |-> NotSubmitted]

\* The state after the components mount: setup has drawn once and stopped
\* the loop.
Mounted ==
    /\ drawingQueue = <<>>
    /\ actionStack = <<>>
    /\ animationSpeed = 100
    /\ processedCommands = {}
    /\ commandHistory = <<>>
    /\ activeAnimations = <<>>
    /\ completedDrawingsRef = <<>>
    /\ completedDrawings = <<>>
    /\ sameArray = TRUE
    /\ colorIndex = 0
    /\ isLooping = FALSE
    /\ isPaused = FALSE
    /\ elapsed = 0
    /\ nextId = 1
    /\ fired = <<>>
    /\ dispatched = <<>>
    /\ outcome = <<>>
    /\ lastRender = <<>>
    /\ rendered = <<>>
    /\ ticked = FALSE
    /\ hist = [op |-> "none", before |-> <<>>, popped |-> FALSE]
    /\ lastClear = [kind |-> "none", upTo |-> 0]
    /\ scenario = NoScenario
    /\ chatMessages = <<>>
    /\ lastCall = NoCall

\* A key is stored (the board is shown at once) and the server has started.
Init ==
    /\ ServerInit
    /\ MicInit(TRUE)
    /\ Mounted

Next ==
    \/ Enqueue
    \/ Undo
    \/ ClearBoard
    \/ KeyClear
    \/ NewChat
    \/ SetSpeed
    \/ Frame
    \/ WindowResized
    \/ TimePasses
    \/ VisibilityChange

Spec == Init /\ [][Next]_vars

\* Sequential single-command enqueues from the empty board, then undos: the
\* runs in which the undo stack reaches its cap.
SequentialEnqueue ==
    /\ nextId <= StackCmds
    /\ scenario.undo = 0
    /\ ProcessActions(ResponseOf(<<DiagramCommand>>))
    /\ UNCHANGED micVars

NextStack ==
    \/ SequentialEnqueue
    \/ Undo

SpecStack == Init /\ [][NextStack]_vars

\* The dispatch of each kind of command: a graph, an annotation and the
\* diagram of a molecule, with frames, undo and the Clear Board button.
DispatchCommands ==
    {GraphCommand("x*x"), AnnotationCommand, Diagram("chemistry", "h2o")}

EnqueueDrawing ==
    \E batch \in UNION {[1..n -> DispatchCommands] : n \in 1..MaxBatch} :
        /\ nextId + Len(batch) - 1 <= MaxCmds
        /\ ProcessActions(ResponseOf(batch))
        /\ UNCHANGED micVars

NextDispatch ==
    \/ EnqueueDrawing
    \/ Undo
    \/ ClearBoard
    \/ Frame
    \/ WindowResized
    \/ TimePasses

SpecDispatch == Init /\ [][NextDispatch]_vars

\* The chat path: transcripts, the responses processActions is handed (with
\* actions of every kind, empty and missing ones), undo and a new chat.
ChatActions ==
    { ActionItem("draw", "graph", "math", "x*x", <<>>, <<>>, <<>>),
      ActionItem("draw", "diagram", "chemistry", "h2o", <<>>, <<>>, <<>>),
      ActionItem("draw", "label", "math", "vertex", <<>>, <<>>, <<>>),
      ActionItem("annotate", "label", "math", "note", <<>>, <<>>, <<>>),
      ActionItem("annotate", "label", "math", "roots", <<>>,
                 << <<1, 0>>, <<3, 0>> >>, <<"x1">>),
      ActionItem("explain", "", "math", "because", <<>>, <<>>, <<>>),
      ActionItem("quiz", "", "math", "solve", <<>>, <<>>, <<>>) }

\* No caller in the repository passes a missing response; the first test of
\* processActions covers it all the same.
Responses ==
    {Response(actions) : actions \in UNION {[1..n -> ChatActions] : n \in 0..MaxActions}}
        \cup {MissingResponse, MissingActions}

\* handleTranscript up to its await: the user's message goes to the chat.
HandleTranscript ==
    /\ Len(chatMessages) < MaxChat
    /\ chatMessages' = Append(chatMessages, "user")
    /\ UNCHANGED <<boardVars, canvasVars, animationSpeed, nextId, hist, lastClear,
                   scenario, lastCall>>
    /\ UNCHANGED <<serverVars, micVars>>

\* The interpretation (or a demo sequence) is there: processActions runs.
ProcessResponse ==
    \E response \in Responses :
        /\ nextId + Len(MapActions(response.actions)) - 1 <= ChatCmds
        /\ Len(chatMessages) < MaxChat
        /\ ProcessActions(response)
        /\ UNCHANGED micVars

NextChat ==
    \/ HandleTranscript
    \/ ProcessResponse
    \/ Undo
    \/ NewChat

SpecChat == Init /\ [][NextChat]_vars

\* Annotate actions with 0..MaxPairs points and 0..MaxPairs labels in
\* meta (a label is any string, the empty one included), one per response.
AnnotatePoints == {Origin, <<1, 0>>, <<3, 0>>}

AnnotateLabels == {"x1", "x2", ""}

AnnotateActions ==
    { ActionItem("annotate", "label", "math", "roots", <<>>, points, labels) :
        points \in UNION {[1..n -> AnnotatePoints] : n \in 0..MaxPairs},
        labels \in UNION {[1..n -> AnnotateLabels] : n \in 0..MaxPairs} }

ProcessAnnotation ==
    \E a \in AnnotateActions :
        /\ nextId + Len(MapAction(a)) - 1 <= MaxCmds
        /\ Len(chatMessages) < MaxChat
        /\ ProcessActions(Response(<<a>>))
        /\ UNCHANGED micVars

NextAnnotate ==
    \/ ProcessAnnotation
    \/ Undo
    \/ NewChat

SpecAnnotate == Init /\ [][NextAnnotate]_vars

\* animateGraph called on a graph that carries its own animationSpeed (in ms),
\* without a speed multiplier or with the multiplier 1.0x as processQueue
\* passes it, and the instance handed to the running loop.
AnimationMs == {17 * k : k \in 1..MaxFrames} \cup {DefaultAnimationMs}

InitAnim ==
    \E expression \in Expressions, ms \in AnimationMs,
       speed \in {Undefined, Multiplier(100)} :
        LET command == [GraphCommand(expression) EXCEPT !.id = 1,
                                                         !.animationSpeed = Ms(ms)]
            animationState == AnimateGraph(command, speed)
        IN  /\ ServerInit
            /\ MicInit(TRUE)
            /\ drawingQueue = <<command>>
            /\ actionStack = <<>>
            /\ animationSpeed = 100
            /\ processedCommands = {0}
            /\ commandHistory = <<command>>
            /\ activeAnimations = IF animationState = <<>> THEN <<>>
                                  ELSE (0 :> animationState[1])
            /\ completedDrawingsRef = <<>>
            /\ completedDrawings = <<>>
            /\ sameArray = TRUE
            /\ colorIndex = 1
            /\ isLooping = (animationState # <<>>)
            /\ isPaused = FALSE
            /\ elapsed = 0
            /\ nextId = 2
            /\ fired = IF animationState = <<>> THEN <<1>> ELSE <<0>>
            /\ dispatched = <<1>>
            /\ outcome = IF animationState = <<>> THEN <<"none">> ELSE <<"active">>
            /\ lastRender = <<NoRender>>
            /\ rendered = <<>>
            /\ ticked = FALSE
            /\ hist = [op |-> "none", before |-> <<>>, popped |-> FALSE]
            /\ lastClear = [kind |-> "none", upTo |-> 0]
            /\ scenario = NoScenario
            /\ chatMessages = <<>>
            /\ lastCall = NoCall

NextAnim ==
    \/ Frame
    \/ TimePasses
    \/ VisibilityChange

SpecAnim == InitAnim /\ [][NextAnim]_vars

\* Two graphs of one batch, each with its own animationSpeed (in ms) and no
\* speed multiplier, both handed to the running loop: the instances run side
\* by side and the shorter one completes while the other is still active.
InitPair ==
    \E expression \in {"x*x", "1/x"}, ms1 \in AnimationMs, ms2 \in AnimationMs :
        LET command1 == [GraphCommand(expression) EXCEPT !.id = 1,
                                                          !.animationSpeed = Ms(ms1)]
            command2 == [GraphCommand("x") EXCEPT !.id = 2,
                                                   !.animationSpeed = Ms(ms2)]
        IN  /\ ServerInit
            /\ MicInit(TRUE)
            /\ drawingQueue = <<command1, command2>>
            /\ actionStack = <<>>
            /\ animationSpeed = 100
            /\ processedCommands = {0, 1}
            /\ commandHistory = <<command1, command2>>
            /\ activeAnimations = (0 :> AnimateGraph(command1, Undefined)[1])
                                      @@ (1 :> AnimateGraph(command2, Undefined)[1])
            /\ completedDrawingsRef = <<>>
            /\ completedDrawings = <<>>
            /\ sameArray = TRUE
            /\ colorIndex = 2
            /\ isLooping = TRUE
            /\ isPaused = FALSE
            /\ elapsed = 0
            /\ nextId = 3
            /\ fired = <<0, 0>>
            /\ dispatched = <<1, 1>>
            /\ outcome = <<"active", "active">>
            /\ lastRender = <<NoRender, NoRender>>
            /\ rendered = <<>>
            /\ ticked = FALSE
            /\ hist = [op |-> "none", before |-> <<>>, popped |-> FALSE]
            /\ lastClear = [kind |-> "none", upTo |-> 0]
            /\ scenario = NoScenario
            /\ chatMessages = <<>>
            /\ lastCall = NoCall

\* Frame callbacks also arrive a few milliseconds after a rendered tick.
ShortSteps == {5, 9}

TimePassesBriefly ==
    /\ elapsed < MIN_FRAME_DELTA
    /\ \E dt \in ShortSteps :
          elapsed' = IF elapsed + dt > MIN_FRAME_DELTA THEN MIN_FRAME_DELTA
                     ELSE elapsed + dt
    /\ UNCHANGED <<boardVars, animationSpeed, processedCommands, commandHistory,
                   activeAnimations, completedDrawingsRef, completedDrawings,
                   sameArray, colorIndex, isLooping, isPaused, fired, dispatched,
                   outcome, lastRender, rendered, ticked, nextId, hist,
                   lastClear, scenario, chatMessages, lastCall>>
    /\ UNCHANGED <<serverVars, micVars>>

NextPair ==
    \/ Frame
    \/ WindowResized
    \/ TimePasses
    \/ TimePassesBriefly
    \/ VisibilityChange

SpecPair == InitPair /\ [][NextPair]_vars

\* Graphs over the sampled domains, each handed to animateGraph with the
\* speed multiplier of the board as processQueue passes it (1.0x or 3.0x,
\* which picks the grid of 200 or of 120 steps), and the instance, when
\* there is one, handed to the running loop.
SamplingInputs ==
    {<<"x", domain>> : domain \in SampledDomains \ {<<-50, 50>>}}
        \cup {<<"x*x", domain>> : domain \in SampledDomains}
        \cup {<<"1/x", DefaultDomain>>, <<"200/x", <<0, 10>>>>,
              <<"1/0", DefaultDomain>>}

InitSampling ==
    \E input \in SamplingInputs, speed \in {100, 300} :
        LET command == [GraphCommand(input[1]) EXCEPT !.id = 1,
                                                       !.domain = input[2]]
            animationState == AnimateGraph(command, Multiplier(speed))
        IN  /\ ServerInit
            /\ MicInit(TRUE)
            /\ drawingQueue = <<command>>
            /\ actionStack = <<>>
            /\ animationSpeed = speed
            /\ processedCommands = {0}
            /\ commandHistory = <<command>>
            /\ activeAnimations = IF animationState = <<>> THEN <<>>
                                  ELSE (0 :> animationState[1])
            /\ completedDrawingsRef = <<>>
            /\ completedDrawings = <<>>
            /\ sameArray = TRUE
            /\ colorIndex = 1
            /\ isLooping = (animationState # <<>>)
            /\ isPaused = FALSE
            /\ elapsed = 0
            /\ nextId = 2
            /\ fired = IF animationState = <<>> THEN <<1>> ELSE <<0>>
            /\ dispatched = <<1>>
            /\ outcome = IF animationState = <<>> THEN <<"none">> ELSE <<"active">>
            /\ lastRender = <<NoRender>>
            /\ rendered = <<>>
            /\ ticked = FALSE
            /\ hist = [op |-> "none", before |-> <<>>, popped |-> FALSE]
            /\ lastClear = [kind |-> "none", upTo |-> 0]
            /\ scenario = NoScenario
            /\ chatMessages = <<>>
            /\ lastCall = NoCall

SpecSampling == InitSampling /\ [][NextPair]_vars

\* drawAnimatedGraph applied to an instance of animateGraph at any tick from 0
\* to past its duration (the function alone, outside the loop of p.draw).
RenderAtTick ==
    /\ \E index \in DOMAIN activeAnimations :
        \E tick \in 0..(activeAnimations[index].duration + ExtraTicks) :
           LET animationState == [activeAnimations[index] EXCEPT !.progress = tick]
               result == DrawAnimatedGraph(animationState)
           IN  lastRender' = [lastRender EXCEPT ![animationState.id] =
                                 [ progress |-> tick,
                                   duration |-> animationState.duration,
                                   n        |-> Len(animationState.points),
                                   drawn    |-> result.drawn,
                                   isComplete |-> result.isComplete ]]
    /\ UNCHANGED <<boardVars, animationSpeed, processedCommands, commandHistory,
                   activeAnimations, completedDrawingsRef, completedDrawings,
                   sameArray, colorIndex, isLooping, isPaused, elapsed, fired,
                   dispatched, outcome, rendered, ticked, nextId, hist, lastClear,
                   scenario, chatMessages, lastCall>>
    /\ UNCHANGED <<serverVars, micVars>>

SpecRender == InitAnim /\ [][RenderAtTick]_vars

\* The tab becomes visible again.
Resume == VisibilityChange /\ ~isPaused'

\* The running loop under a fair host: time passes, a pause ends, and the
\* browser delivers animation frames while the tab is visible, so a frame
\* that renders happens again and again while the loop runs (frames that
\* arrive hidden or too early are skipped by p.draw and change nothing).
SpecAnimFair ==
    /\ InitAnim
    /\ [][NextAnim]_vars
    /\ WF_vars(TimePasses)
    /\ WF_vars(Resume)
    /\ SF_vars(Frame)


\* The requests of SpecServer.  Transcripts: empty, plain, padded with
\* spaces, of 500 and 501 characters, the 604 characters of the test
\* (two spaces, 600 letters, two spaces), blank, with a tab, with a vertical
\* tab or a form feed, and with non-ASCII characters.
GraphX == <<71, 114, 97, 112, 104, 32, 120>>

Transcripts ==
    { <<>>,
      GraphX,
      <<32, 32>> \o GraphX \o <<32>>,
      Chars(MAX_TRANSCRIPT, 97),
      Chars(MAX_TRANSCRIPT + 1, 97),
      <<32, 32>> \o Chars(600, 97) \o <<32, 32>>,
      <<32, 32>>,
      <<97, 9, 98>>,
      <<97, 11, 98>>,
      <<97, 12, 98>>,
      <<71, 114, 97, 112, 104, 32, 27979, 35797>> }

ValidApiKey == <<115, 107, 45>> \o Chars(24, 49)

ApiKeys ==
    { ValidApiKey,
      <<115, 104, 111, 114, 116>>,
      Chars(MIN_API_KEY - 1, 49),
      Chars(MIN_API_KEY, 49),
      Chars(MIN_API_KEY, 233) }

Request(transcript, apiKey) ==
    Object(<<Entry("transcript", String(transcript)), Entry("apiKey", String(apiKey))>>)

With(body, key, value) == [body EXCEPT !.entries = Append(@, Entry(key, value))]

Bodies ==
    {Request(transcript, ValidApiKey) : transcript \in Transcripts}
    \cup {Request(GraphX, apiKey) : apiKey \in ApiKeys}
    \cup { Request(<<>>, <<115, 104, 111, 114, 116>>),
           Object(<<Entry("apiKey", String(ValidApiKey))>>),
           Object(<<Entry("transcript", String(GraphX))>>),
           Object(<<>>),
           With(Request(GraphX, ValidApiKey), "sessionId", String(<<115, 49>>)),
           With(Request(GraphX, ValidApiKey), "sessionId", String(<<115, 233>>)),
           With(Request(<<>>, ValidApiKey), "sessionId", String(<<115, 233>>)),
           With(Request(GraphX, ValidApiKey), "meta",
                Object(<<Entry("note", String(<<111, 107>>))>>)),
           With(Request(GraphX, ValidApiKey), "meta",
                Object(<<Entry("tags", Array(<<Entry("0", String(<<111, 107>>)),
                                               Entry("1", String(<<27979>>))>>))>>)),
           With(Request(GraphX, ValidApiKey), "meta",
                Object(<<Entry("apiKey", String(<<27979>>))>>)) }

Post ==
    \E body \in Bodies :
        /\ requestCount < MaxRequests
        /\ PostInterpret(body)

ModelReplies ==
    \E requestId \in DOMAIN inflight, result \in Completions \cup Errors :
        FinishInterpret(requestId, result)

NextServer ==
    \/ Post
    \/ ModelReplies

SpecServer == Init /\ [][NextServer]_vars

\* addMessage called directly, on two sessions, up to SessionAdds times
\* each: the k-th message of a session has the content k, so that every
\* message of a session differs from the others; the first ones are of
\* either role.
SessionAdds == 22

SessionIds ==
    { [given |-> TRUE, chars |-> <<115, 49>>, request |-> 0],
      [given |-> TRUE, chars |-> <<115, 50>>, request |-> 0] }

AddMessageCalled ==
    /\ \E sessionId \in SessionIds :
          LET before == IF sessionId \in DOMAIN addedLog THEN addedLog[sessionId] ELSE <<>>
              k == Len(before) + 1
          IN  /\ k <= SessionAdds
              /\ \E role \in IF k <= 2 THEN {"user", "assistant"} ELSE {"user"} :
                    /\ sessions' = AddMessage(sessions, sessionId, role, <<k>>)
                    /\ addedLog' = (sessionId :> Append(before, [role |-> role,
                                                              content |-> <<k>>]))
                                    @@ addedLog
    /\ UNCHANGED <<inflight, requestCount, lastReply, sampled, retry, stream,
                   tutorBrain>>
    /\ UNCHANGED clientVars

SpecSession == Init /\ [][AddMessageCalled]_vars

\* The stream requests: the queries carry a transcript and an API key, or
\* lack one, or carry ones that fail validation, with or without a session.
Queries ==
    { Request(GraphX, ValidApiKey),
      Request(<<32, 32>>, ValidApiKey),
      Request(<<>>, ValidApiKey),
      Request(Chars(MAX_TRANSCRIPT + 1, 97), ValidApiKey),
      Request(GraphX, <<115, 104, 111, 114, 116>>),
      Object(<<Entry("apiKey", String(ValidApiKey))>>),
      Object(<<Entry("transcript", String(GraphX))>>),
      With(Request(GraphX, ValidApiKey), "sessionId", String(<<115, 49>>)) }

StreamRequested ==
    \E query \in Queries :
        /\ requestCount < MaxRequests
        /\ GetStream(query)

StreamReplies ==
    \E result \in Completions \cup Errors : StreamResult(result)

NextStream ==
    \/ StreamRequested
    \/ StreamReplies

SpecStream == Init /\ [][NextStream]_vars

\* Calls of sampleFunction: 1/x, x, x*x and a function that is NaN
\* everywhere, over ranges with integer bounds (empty ones included), with
\* the steps 1, 0.5 and 0.25 and the default step 0.1.
SampleFuncs == {"1/x", "x", "x*x", "NaN"}

SampleStarts == {-2, -1, 0, 2}

SampleEnds == {0, 1, 2}

SampleSteps == {<<1, 1>>, <<1, 2>>, <<1, 4>>, <<1, 10>>}

CallSampleFunction ==
    /\ \E func \in SampleFuncs, start \in SampleStarts, end \in SampleEnds,
          step \in SampleSteps :
          sampled' = [ func |-> func, start |-> start, end |-> end,
                       p |-> step[1], q |-> step[2],
                       points |-> SampleFunction(func, start, end, step[1], step[2]) ]
    /\ UNCHANGED <<sessions, inflight, requestCount, lastReply, retry, stream,
                   addedLog, tutorBrain>>
    /\ UNCHANGED clientVars

SpecSample == Init /\ [][CallSampleFunction]_vars

\* One call of callWithRetry with 1 to 4 attempts (interpretPrompt passes 3
\* and 20000 ms), and everything fn and the timers can do, in any order.
MaxAttempts == 4

RetryStep(A) ==
    /\ A
    /\ UNCHANGED <<sessions, inflight, requestCount, lastReply, sampled, stream,
                   addedLog, tutorBrain>>
    /\ UNCHANGED clientVars

RetryCalled ==
    \E attempts \in 1..MaxAttempts : RetryStep(CallWithRetry(attempts, RETRY_TIMEOUT_MS))

FnSettles ==
    \E k \in 0..(MaxAttempts - 1) : RetryStep(FnResolves(k)) \/ RetryStep(FnRejects(k))

TimerFires ==
    \E k \in 0..(MaxAttempts - 1) : RetryStep(TimeoutFires(k))

BackoffOver == RetryStep(BackoffEnds)

NextRetry ==
    \/ RetryCalled
    \/ FnSettles
    \/ TimerFires
    \/ BackoffOver

SpecRetry == Init /\ [][NextRetry]_vars

-----------------------------------------------------------------------------
(* The API key, Demo Mode and the microphone.                               *)
\* VoiceBoard renders: hasApiKey() is read again, and MicButton gets its
\* props. loading is true while an /api/interpret call is awaited.
Render(stored, demo, awaited) == MicButtonProps(stored, demo, awaited = "sent")

\* ApiKeyInput handleSubmit with a key that starts with 'sk-': setApiKey,
\* then onKeySet shows the board.
SubmitKey ==
    /\ showApiKeyInput
    /\ apiKeyStored' = TRUE
    /\ showApiKeyInput' = FALSE
    /\ micProps' = Render(TRUE, isDemoMode, pending)
    /\ UNCHANGED <<isDemoMode, isListening, final, pending>>
    /\ UNCHANGED <<boardVars, canvasVars, animationSpeed, nextId, hist, lastClear,
                   scenario, chatMessages, lastCall>>
    /\ UNCHANGED serverVars

\* The key leaves localStorage (clearApiKey, the removeItem of the test
\* steps, another tab): state outside React, so nothing renders again.
KeyRemoved ==
    /\ apiKeyStored
    /\ apiKeyStored' = FALSE
    /\ UNCHANGED <<showApiKeyInput, isDemoMode, micProps, isListening, final,
                   pending>>
    /\ UNCHANGED <<boardVars, canvasVars, animationSpeed, nextId, hist, lastClear,
                   scenario, chatMessages, lastCall>>
    /\ UNCHANGED serverVars

\* The Demo Mode checkbox: setIsDemoMode(e.target.checked)
ToggleDemo ==
    /\ ~showApiKeyInput
    /\ isDemoMode' = ~isDemoMode
    /\ micProps' = Render(apiKeyStored, ~isDemoMode, pending)
    /\ UNCHANGED <<apiKeyStored, showApiKeyInput, isListening, final, pending>>
    /\ UNCHANGED <<boardVars, canvasVars, animationSpeed, nextId, hist, lastClear,
                   scenario, chatMessages, lastCall>>
    /\ UNCHANGED serverVars

\* What the recognition hears in one final result.
Heard == {GraphX, <<>>}

\* recognition.onresult with one final result:
\* finalTranscript += transcript + ' '; setFinal(prev => prev + finalTranscript)
SpeechResult ==
    \E transcript \in Heard :
        /\ ~showApiKeyInput
        /\ isListening
        /\ final = <<>>
        /\ final' = final \o transcript \o <<32>>
        /\ UNCHANGED <<apiKeyStored, showApiKeyInput, isDemoMode, micProps,
                       isListening, pending>>
        /\ UNCHANGED <<boardVars, canvasVars, animationSpeed, nextId, hist,
                       lastClear, scenario, chatMessages, lastCall>>
        /\ UNCHANGED serverVars

\* recognition.onend / onerror: setIsListening(false); onListeningChange
\* sets VoiceBoard's status, which renders it again.
RecognitionEnds ==
    /\ ~showApiKeyInput
    /\ isListening
    /\ isListening' = FALSE
    /\ micProps' = Render(apiKeyStored, isDemoMode, pending)
    /\ UNCHANGED <<apiKeyStored, showApiKeyInput, isDemoMode, final, pending>>
    /\ UNCHANGED <<boardVars, canvasVars, animationSpeed, nextId, hist, lastClear,
                   scenario, chatMessages, lastCall>>
    /\ UNCHANGED serverVars

\* interpretCommand up to its first return or await: without a key (and for
\* a transcript repeated within DEBOUNCE_MS) it returns { actions: [] } with
\* no request; otherwise it sets loading and calls /api/interpret.
InterpretCommand(stored) == IF stored THEN {"sent", "empty"} ELSE {"empty"}

\* MicButton handleToggle, with the props of the last render, and
\* handleTranscript up to its await when a transcript is sent.
HandleToggle ==
    IF micProps.requiresApiKey
    THEN UNCHANGED <<isListening, final, pending, micProps, chatMessages>>
    ELSE IF isListening
         THEN /\ isListening' = FALSE
              /\ IF Trim(final) # <<>>
                 THEN /\ Len(chatMessages) < MaxChat
                      /\ chatMessages' = Append(chatMessages, "user")
                      /\ final' = <<>>
                      /\ IF isDemoMode
                         THEN pending' = pending
                         ELSE pending' \in InterpretCommand(apiKeyStored)
                 ELSE UNCHANGED <<chatMessages, final, pending>>
              /\ micProps' = Render(apiKeyStored, isDemoMode, pending')
         ELSE /\ isListening' = TRUE
              /\ final' = <<>>
              /\ micProps' = Render(apiKeyStored, isDemoMode, pending)
              /\ UNCHANGED <<chatMessages, pending>>

\* A click on the mic button: <button disabled={disabled || requiresApiKey}>.
\* (One interpretation is awaited at a time.)
ClickMic ==
    /\ ~showApiKeyInput
    /\ pending = "none"
    /\ ~(micProps.disabled \/ micProps.requiresApiKey)
    /\ HandleToggle
    /\ UNCHANGED <<apiKeyStored, showApiKeyInput, isDemoMode>>
    /\ UNCHANGED <<boardVars, canvasVars, animationSpeed, nextId, hist, lastClear,
                   scenario, lastCall>>
    /\ UNCHANGED serverVars

\* The M and S keys: micButtonRef.current?.toggle()
KeyToggle ==
    \E key \in {"m", "s"} :
        /\ ~showApiKeyInput
        /\ pending = "none"
        /\ HandleToggle
        /\ UNCHANGED <<apiKeyStored, showApiKeyInput, isDemoMode>>
        /\ UNCHANGED <<boardVars, canvasVars, animationSpeed, nextId, hist,
                       lastClear, scenario, lastCall>>
        /\ UNCHANGED serverVars

\* What /api/interpret answers: a graph, or nothing usable (a caught error
\* becomes { actions: [] }).
Interpretations ==
    { Response(<<ActionItem("draw", "graph", "math", "x*x", <<>>, <<>>, <<>>)>>),
      Response(<<>>) }

\* interpretCommand returns and handleTranscript goes on: processActions.
InterpretReturns ==
    \E response \in Interpretations :
        /\ pending # "none"
        /\ pending = "empty" => response = Response(<<>>)
        /\ nextId + Len(MapActions(response.actions)) - 1 <= ChatCmds
        /\ Len(chatMessages) < MaxChat
        /\ ProcessActions(response)
        /\ pending' = "none"
        /\ micProps' = Render(apiKeyStored, isDemoMode, "none")
        /\ UNCHANGED <<apiKeyStored, showApiKeyInput, isDemoMode, isListening,
                       final>>

\* The New Chat button of the board.
NewChatOnBoard ==
    /\ ~showApiKeyInput
    /\ NewChat

\* VoiceBoard mounts with or without a stored key.
InitMic ==
    \E stored \in BOOLEAN :
        /\ ServerInit
        /\ MicInit(stored)
        /\ Mounted

NextMic ==
    \/ SubmitKey
    \/ KeyRemoved
    \/ ToggleDemo
    \/ ClickMic
    \/ KeyToggle
    \/ SpeechResult
    \/ RecognitionEnds
    \/ InterpretReturns
    \/ NewChatOnBoard

SpecMic == InitMic /\ [][NextMic]_vars

-----------------------------------------------------------------------------
(* useTutorBrain: the debounce of duplicate transcripts.                    *)
\* The debounce condition of interpretCommand:
\* transcript === lastTranscriptRef.current &&
\*     now - lastTimestampRef.current < DEBOUNCE_MS
DebouncedAtOrBelow(brain, transcript) ==
    /\ transcript = brain.lastTranscriptRef
    /\ brain.now - brain.lastTimestampRef <= DEBOUNCE_MS

Debounced(brain, transcript) ==
    /\ transcript = brain.lastTranscriptRef
    /\ brain.now - brain.lastTimestampRef < DEBOUNCE_MS

\* What handleTranscript(transcript) does up to its first return or await:
\* blank transcripts return at once; in Demo Mode the transcript is ignored;
\* interpretCommand without a key, or debounced, returns { actions: [] }
\* with no request; otherwise the refs are set and /api/interpret is called.
PathOf(brain, transcript, demo, stored) ==
    IF Trim(transcript) = <<>> THEN "blank"
    ELSE IF demo THEN "demo"
    ELSE IF ~stored THEN "no key"
    ELSE IF Debounced(brain, transcript) THEN "debounced"
    ELSE "sent"

\* interpretCommand(transcript) up to its first return or await, on the
\* refs of the hook.
InterpretCommandCalled(brain, transcript, path) ==
    LET seen == [brain EXCEPT
                    !.submitted = [transcript |-> transcript, at |-> brain.now,
                                   path |-> path]]
    IN  IF path = "blank" THEN brain
        ELSE IF path = "sent"
        THEN [seen EXCEPT !.lastTranscriptRef = transcript,
                          !.lastTimestampRef = brain.now,
                          !.calls = Append(@, [transcript |-> transcript,
                                               at |-> brain.now])]
        ELSE seen

\* What is said to the board: two commands, and nothing but spaces.
Said == {GraphX, <<67, 108, 101, 97, 114>>, <<32, 32>>}

\* The most /api/interpret calls one behaviour makes.
MaxCalls == 2

\* The most chat messages one behaviour of the debounce adds.
MaxLog == 6

\* handleTranscript(transcript), called while no interpretation is awaited.
TranscriptSubmitted ==
    \E transcript \in Said :
        LET path == PathOf(tutorBrain, transcript, isDemoMode, apiKeyStored)
        IN  /\ ~showApiKeyInput
            /\ pending = "none"
            /\ path = "sent" => Len(tutorBrain.calls) < MaxCalls
            /\ path # "blank" => Len(chatMessages) < MaxLog
            /\ tutorBrain' = InterpretCommandCalled(tutorBrain, transcript, path)
            /\ chatMessages' = IF path = "blank" THEN chatMessages
                                ELSE Append(chatMessages, "user")
            /\ pending' = CASE path = "sent" -> "sent"
                             [] path \in {"no key", "debounced"} -> "empty"
                             [] OTHER -> "none"
            /\ micProps' = Render(apiKeyStored, isDemoMode, pending')
            /\ UNCHANGED <<apiKeyStored, showApiKeyInput, isDemoMode, isListening,
                           final>>
            /\ UNCHANGED <<boardVars, canvasVars, animationSpeed, nextId, hist,
                           lastClear, scenario, lastCall>>
            /\ UNCHANGED <<sessions, inflight, requestCount, lastReply, sampled,
                           retry, stream, addedLog>>

\* The delays between two events of the page, in ms.
Delays == {DEBOUNCE_MS - 1, DEBOUNCE_MS}

\* The clock stops this many ms after the mount.
MaxElapsed == 3000

\* Date.now() moves on.
ClockMoves ==
    \E ms \in Delays :
        /\ tutorBrain.now + ms <= DEBOUNCE_MS + MaxElapsed
        /\ tutorBrain' = [tutorBrain EXCEPT !.now = @ + ms]
        /\ UNCHANGED <<sessions, inflight, requestCount, lastReply, sampled,
                       retry, stream, addedLog>>
        /\ UNCHANGED clientVars

\* interpretCommand returns (at once when it made no request) and
\* handleTranscript goes on: processActions.
TranscriptInterpreted ==
    \E response \in Interpretations :
        /\ pending # "none"
        /\ pending = "empty" => response = Response(<<>>)
        /\ nextId + Len(MapActions(response.actions)) - 1 <= ChatCmds
        /\ Len(chatMessages) < MaxLog
        /\ ProcessActions(response)
        /\ pending' = "none"
        /\ micProps' = Render(apiKeyStored, isDemoMode, "none")
        /\ UNCHANGED <<apiKeyStored, showApiKeyInput, isDemoMode, isListening,
                       final>>

NextDebounce ==
    \/ SubmitKey
    \/ KeyRemoved
    \/ ToggleDemo
    \/ TranscriptSubmitted
    \/ ClockMoves
    \/ TranscriptInterpreted

SpecDebounce == InitMic /\ [][NextDebounce]_vars

-----------------------------------------------------------------------------
(* Claims *)

QueueIds == Range(Ids(drawingQueue))

\* C1: an enqueue followed immediately by undo() leaves the command list
\* exactly as it was before the enqueue.
C1_UndoInvertsEnqueue ==
    [][(hist.op = "enqueue" /\ hist'.op = "undo") => drawingQueue' = hist.before]_vars

\* C1 witness: two sequential enqueues and then one undo, which restored the
\* non-empty list of the first enqueue.
C1_Witness ==
    /\ scenario.enq = 2
    /\ scenario.undo = 1
    /\ hist.op = "undo"
    /\ drawingQueue = scenario.first
    /\ drawingQueue # <<>>

\* C2 (as claimed): after an undo() that popped a snapshot no animation is
\* active, and every later tick draws commands of that snapshot only.
C2_UndoRendersSnapshot ==
    (hist.op = "undo" /\ hist.popped) =>
        /\ DOMAIN activeAnimations = {}
        /\ ticked => Range(rendered) \subseteq QueueIds

\* C3 (as claimed): with enqueues and undos only, every command of the current
\* command list has been dispatched exactly once.
C3_DispatchedExactlyOnce ==
    lastClear.kind = "none" =>
        \A i \in 1..Len(drawingQueue) : dispatched[drawingQueue[i].id] = 1

\* C4 (as claimed): once the canvas is cleared, the command list, the undo
\* stack and the active animations are empty, and no tick draws a command
\* that was submitted before the clear.
C4_ClearForgetsEverything ==
    lastClear.kind = "clearBoard" =>
        /\ hist.op = "clear" => /\ drawingQueue = <<>>
                                /\ actionStack = <<>>
                                /\ DOMAIN activeAnimations = {}
        /\ \A id \in Range(rendered) : id > lastClear.upTo

\* C5 (as claimed): every clear action resets the board and the canvas
\* together, and a command enqueued on the cleared board is dispatched.
C5_EveryClearResetsAll ==
    /\ hist.op = "clear" =>
          /\ drawingQueue = <<>>
          /\ actionStack = <<>>
          /\ completedDrawingsRef = <<>>
          /\ processedCommands = {}
          /\ DOMAIN activeAnimations = {}
          /\ colorIndex = 0
    /\ (lastClear.kind # "none" /\ hist.op = "enqueue" /\ hist.before = <<>>) =>
          \A i \in 1..Len(drawingQueue) : dispatched[drawingQueue[i].id] = 1

\* C6: the undo stack never holds more than MAX_STACK_SIZE snapshots, and an
\* enqueue leaves it holding the most recent MAX_STACK_SIZE of the old
\* snapshots plus the new one, in order (the oldest is the one dropped).
C6_UndoStackCapped ==
    /\ [](Len(actionStack) <= MAX_STACK_SIZE)
    /\ [][Len(drawingQueue') > Len(drawingQueue) =>
            actionStack' = LastN(Append(actionStack, drawingQueue), MAX_STACK_SIZE)]_vars

\* C6 witness: the 51st sequential enqueue has evicted the oldest snapshot
\* (the empty list); the stack is full and starts at the first batch.
C6_Witness ==
    /\ scenario.enq = MAX_STACK_SIZE + 1
    /\ scenario.undo = 0
    /\ Len(actionStack) = MAX_STACK_SIZE
    /\ actionStack[1] = scenario.first
    /\ actionStack[MAX_STACK_SIZE] = hist.before

\* C7 (as claimed): 51 sequential enqueues from empty and then 51 undos leave
\* the queue empty.
C7_FiftyOneUndosEmptyQueue ==
    (scenario.enq = MAX_STACK_SIZE + 1 /\ scenario.undo = MAX_STACK_SIZE + 1) =>
        drawingQueue = <<>>

\* C7 (amended): 51 sequential enqueues from empty and then 51 undos leave
\* the queue holding the first batch (its snapshot of the empty queue was
\* evicted), reached by the 50th undo; the 51st undo changes nothing.
C7_FiftyOneUndosKeepFirstBatch ==
    /\ [](scenario.enq = MAX_STACK_SIZE + 1 /\ scenario.undo >= MAX_STACK_SIZE =>
            /\ drawingQueue = scenario.first
            /\ drawingQueue # <<>>
            /\ actionStack = <<>>)
    /\ [][scenario.enq = MAX_STACK_SIZE + 1 /\ scenario.undo = MAX_STACK_SIZE
          /\ scenario'.undo = MAX_STACK_SIZE + 1 =>
            /\ drawingQueue' = drawingQueue
            /\ actionStack' = actionStack]_vars

\* C7 witness: the state after the 51st undo.
C7_Witness ==
    /\ scenario.enq = MAX_STACK_SIZE + 1
    /\ scenario.undo = MAX_STACK_SIZE + 1
    /\ Len(drawingQueue) = 1

ClaimedFrames(baseMs, speed) == (12 * baseMs + speed) \div (2 * speed)

\* C9 (as claimed): an animation created by a dispatch has the duration
\* round((B / m) / 1000 * 60) for the base speed B = 1500 ms of the command
\* and the multiplier m in force.
C9_DurationFollowsSpeed ==
    [][\A index \in (DOMAIN activeAnimations') \ (DOMAIN activeAnimations) :
          activeAnimations'[index].duration
              = ClaimedFrames(DefaultAnimationMs, animationSpeed)]_vars

\* C10: a tick of an animation of d >= 1 frames and n > 0 points that has had
\* t ticks draws floor(t * n / d) points and reports completion iff t >= d.
C10_PointsPerTick ==
    \A id \in DOMAIN lastRender :
        LET r == lastRender[id]
        IN  (r.duration >= 1 /\ r.n > 0 /\ r.progress > 0) =>
               /\ r.drawn = (r.progress * r.n) \div r.duration
               /\ r.isComplete <=> r.progress >= r.duration
               /\ (r.duration = 90 /\ r.progress = 45) => r.drawn = r.n \div 2

\* C10 witness: tick 45 of a 90-frame animation, part of the points drawn.
C10_Witness ==
    \E id \in DOMAIN lastRender :
        /\ lastRender[id].duration = 90
        /\ lastRender[id].progress = 45
        /\ lastRender[id].drawn > 0
        /\ ~lastRender[id].isComplete

\* C11: under a fair host (frames keep rendering, no pause lasts forever) an
\* animation that is active eventually completes: its command is then in the
\* completed list and no longer in the active set.
C11_AnimationCompletes ==
    \A id \in {1} :
        (id \in DOMAIN outcome /\ outcome[id] = "active")
            ~> /\ outcome[id] = "completed"
               /\ id \in Range(Ids(completedDrawings))
               /\ \A index \in DOMAIN activeAnimations : activeAnimations[index].id # id

\* C11 witness: an animation of several frames has completed, its command is
\* in the completed list and the active set is empty (here with the tab
\* hidden again after the last frame).
C11_Witness ==
    /\ outcome = <<"completed">>
    /\ lastRender[1].duration > 1
    /\ lastRender[1].progress = lastRender[1].duration
    /\ Ids(completedDrawings) = <<1>>
    /\ activeAnimations = <<>>
    /\ isPaused

\* C19: a processActions call with a missing response, missing actions or an
\* empty actions list leaves the command list and the undo stack as they
\* were and adds exactly one message, an error, to the chat.
C19_FailedInterpretationCommitsNothing ==
    [][(lastCall' # lastCall
        /\ \/ lastCall'.response.kind \in {"undefined", "noActions"}
           \/ lastCall'.response = Response(<<>>)) =>
            /\ drawingQueue' = drawingQueue
            /\ actionStack' = actionStack
            /\ chatMessages' = Append(chatMessages, "error")]_vars

\* C19 witness: an interpretation with an empty actions list has just failed
\* on a board that holds commands and an undo snapshot; the chat ends with
\* the user's message and the error.
C19_Witness ==
    /\ lastCall.response = Response(<<>>)
    /\ drawingQueue # <<>>
    /\ actionStack # <<>>
    /\ Len(chatMessages) >= 2
    /\ chatMessages[Len(chatMessages)] = "error"
    /\ chatMessages[Len(chatMessages) - 1] = "user"

\* The commands the interpretation contract gives an action: what kind, and
\* the text they carry.
ClaimedCommand(a) ==
    CASE a.action = "draw" /\ a.visual_type = "graph" ->
            << [type |-> "graph", text |-> a.content] >>
      [] a.action = "draw" /\ a.visual_type = "diagram" ->
            << [type |-> "diagram", text |-> a.content] >>
      [] a.action = "annotate" /\ a.points # <<>> /\ a.labels # <<>> ->
            [i \in 1..Len(a.points) |->
                [type |-> "annotation",
                 text |-> IF i <= Len(a.labels) THEN a.labels[i] ELSE a.content]]
      [] a.action = "annotate" ->
            << [type |-> "annotation", text |-> a.content] >>
      [] OTHER -> <<>>

RECURSIVE ClaimedCommands(_)
ClaimedCommands(actions) ==
    IF actions = <<>> THEN <<>>
    ELSE ClaimedCommand(Head(actions)) \o ClaimedCommands(Tail(actions))

TextOf(command) == IF command.type = "graph" THEN command.expression ELSE command.content

\* C20: a processActions call with a non-empty actions list appends the
\* commands of its draw and annotate actions, in action order, behind the old
\* list, and pushes the one snapshot of the old list (the stack capped); with
\* no draw or annotate action (explain, quiz) list and stack stay as they were.
C20_ResponseAppendsOneBatch ==
    [][(lastCall' # lastCall
        /\ lastCall'.response.kind = "actions" /\ lastCall'.response.actions # <<>>) =>
            LET claimed == ClaimedCommands(lastCall'.response.actions)
                n == Len(drawingQueue)
            IN  /\ Len(drawingQueue') = n + Len(claimed)
                /\ SubSeq(drawingQueue', 1, n) = drawingQueue
                /\ \A i \in 1..Len(claimed) :
                      /\ drawingQueue'[n + i].type = claimed[i].type
                      /\ TextOf(drawingQueue'[n + i]) = claimed[i].text
                /\ actionStack' = IF claimed = <<>> THEN actionStack
                                  ELSE LastN(Append(actionStack, drawingQueue),
                                             MAX_STACK_SIZE)]_vars

\* C20 witness: a response of an explanation and an annotation of two points
\* was processed on the empty board: two commands, one snapshot.
C20_Witness ==
    /\ Len(lastCall.response.actions) = 2
    /\ lastCall.response.actions[1].action = "explain"
    /\ lastCall.response.actions[2].action = "annotate"
    /\ Len(lastCall.response.actions[2].points) = 2
    /\ Len(drawingQueue) = 2
    /\ TextOf(drawingQueue[1]) = "x1"
    /\ TextOf(drawingQueue[2]) = "roots"
    /\ actionStack = << <<>> >>
    /\ chatMessages = <<"ai">>

\* The expressions whose sampled point sequence over the default domain is
\* empty, at either number of target points.
DegenerateExpressions ==
    {e \in Expressions :
        \A targetPoints \in {DefaultTargetPoints, ReducedTargetPoints} :
            SamplePoints(e, DefaultDomain, targetPoints) = <<>>}

HasSamples(command) ==
    /\ command.domain = DefaultDomain
    /\ command.expression \in Expressions \ DegenerateExpressions

HasNoSamples(command) ==
    /\ command.domain = DefaultDomain
    /\ command.expression \in DegenerateExpressions

InstancesOf(id) == {index \in DOMAIN activeAnimations : activeAnimations[index].id = id}

\* C12: every dispatched annotation or diagram is in the completed list of
\* the dispatcher from its dispatch on and never has an animation instance;
\* every dispatched graph with samples has, until it completes, exactly one
\* active animation, keyed by its index in the history, and is in no
\* completed list before that.
C12_DispatchByKind ==
    \A h \in 1..Len(commandHistory) :
        LET command == commandHistory[h]
            id == command.id
        IN  /\ command.type \in {"annotation", "diagram"} =>
                  /\ id \in Range(Ids(completedDrawingsRef))
                  /\ outcome[id] = "none"
                  /\ InstancesOf(id) = {}
            /\ (command.type = "graph" /\ HasSamples(command)) =>
                  /\ outcome[id] \in {"active", "completed"}
                  /\ outcome[id] = "active" =>
                        /\ InstancesOf(id) = {h - 1}
                        /\ id \notin Range(Ids(completedDrawings))
                        /\ id \notin Range(Ids(completedDrawingsRef))
                  /\ outcome[id] = "completed" => InstancesOf(id) = {}

\* C12 witness: the molecule was dispatched and is completed with no
\* instance; the graph dispatched after it is animating under its history
\* index 1 and is in no completed list.
C12_Witness ==
    /\ Len(commandHistory) = 2
    /\ commandHistory[1].diagramType = "molecule"
    /\ commandHistory[1].content = "h2o"
    /\ Ids(completedDrawingsRef) = <<commandHistory[1].id>>
    /\ outcome[commandHistory[1].id] = "none"
    /\ commandHistory[2].type = "graph"
    /\ DOMAIN activeAnimations = {1}
    /\ activeAnimations[1].id = commandHistory[2].id

\* C13: a dispatched graph with no samples has had its completion callback
\* called exactly once, has no animation instance, is in the history but in
\* no completed list and is never rendered; its dispatch starts no loop.
C13_EmptyGraphCompletesAtOnce ==
    /\ [](\A h \in 1..Len(commandHistory) :
            LET command == commandHistory[h]
                id == command.id
            IN  (command.type = "graph" /\ HasNoSamples(command)) =>
                    /\ dispatched[id] = 1
                    /\ fired[id] = 1
                    /\ outcome[id] = "none"
                    /\ InstancesOf(id) = {}
                    /\ lastRender[id] = NoRender
                    /\ id \notin Range(Ids(completedDrawings))
                    /\ id \notin Range(Ids(completedDrawingsRef))
                    /\ id \notin Range(rendered))
    /\ [][(~isLooping
           /\ DOMAIN activeAnimations' \subseteq DOMAIN activeAnimations
           /\ \E h \in 1..Len(commandHistory') :
                 /\ commandHistory'[h].type = "graph"
                 /\ HasNoSamples(commandHistory'[h])
                 /\ h > Len(commandHistory))
          => ~isLooping']_vars

\* C13 witness: the graph of 1/0 was dispatched after an annotation, its
\* callback has run, a tick has rendered the annotation alone and the loop
\* is off.
C13_Witness ==
    /\ Len(commandHistory) = 2
    /\ commandHistory[2].expression = "1/0"
    /\ fired[commandHistory[2].id] = 1
    /\ activeAnimations = <<>>
    /\ ticked
    /\ rendered = <<commandHistory[1].id>>
    /\ ~isLooping

\* The palette colour of the k-th command, k counted from 0.
PaletteColor(k) == COLORS[(k % Len(COLORS)) + 1]

\* C14 (as claimed): a tick draws every completed command in the palette
\* colour of its rank among the commands submitted since the last clear.
C14_ColorFollowsSubmission ==
    \A position \in 1..Len(rendered) :
        CompletedColor(position) = PaletteColor(rendered[position] - lastClear.upTo - 1)

\* C15 (as claimed): after the Clear Board button, a tick draws the first
\* command submitted since in the first palette colour, the colour of the
\* first command of a fresh session.
C15_ClearResetsPalette ==
    lastClear.kind = "clearBoard" =>
        \A position \in 1..Len(rendered) :
            rendered[position] = lastClear.upTo + 1 =>
                CompletedColor(position) = PaletteColor(0)

\* C16 (as claimed): drawAnimatedGraph at a tick at or past the duration
\* draws the full point sequence, whatever the instance.
C16_RenderIdempotentOnceComplete ==
    \A id \in DOMAIN lastRender :
        LET r == lastRender[id]
        IN  (r.n > 0 /\ r.progress >= r.duration) => r.drawn = r.n

\* C17: while the tab is hidden no step (a frame callback least of all)
\* advances an animation, completes one, renders or calls a callback; the
\* step that ends the pause leaves every animation as it was and has the loop
\* running if any is active; and a step never moves the progress of an
\* animation by more than one tick, nor back.
C17_PauseFreezesAnimations ==
    /\ [][(isPaused /\ isPaused') =>
            /\ activeAnimations' = activeAnimations
            /\ completedDrawings' = completedDrawings
            /\ fired' = fired
            /\ lastRender' = lastRender
            /\ rendered' = rendered
            /\ isLooping' = isLooping]_vars
    /\ [][(isPaused /\ ~isPaused') =>
            /\ activeAnimations' = activeAnimations
            /\ DOMAIN activeAnimations # {} => isLooping']_vars
    /\ [][\A index \in DOMAIN activeAnimations \cap DOMAIN activeAnimations' :
            activeAnimations'[index].progress - activeAnimations[index].progress
                \in {0, 1}]_vars

\* C17 witness: the tab is hidden with an animation part of the way (two of
\* its ticks done, more to come), a frame due, and the loop on.
C17_Witness ==
    /\ isPaused
    /\ isLooping
    /\ elapsed = MIN_FRAME_DELTA
    /\ DOMAIN activeAnimations = {0}
    /\ activeAnimations[0].progress = 2
    /\ activeAnimations[0].duration > 2

\* C18: whenever an animation is active the loop is running; a step in which
\* a tick rendered and that leaves no animation active leaves the loop
\* stopped; a step that leaves a new animation active leaves it running.
C18_LoopRunsIffAnimating ==
    /\ [](DOMAIN activeAnimations # {} => isLooping)
    /\ [][(elapsed' < elapsed /\ DOMAIN activeAnimations' = {}) => ~isLooping']_vars
    /\ [][(DOMAIN activeAnimations' \ DOMAIN activeAnimations # {}) => isLooping']_vars

\* C18 witness: a graph was dispatched and is active with the loop on, after
\* an earlier tick had rendered with nothing active and stopped the loop.
C18_Witness ==
    /\ DOMAIN activeAnimations = {1}
    /\ isLooping
    /\ Len(completedDrawings) = 1
    /\ rendered = Ids(completedDrawings)
    /\ hist.op = "enqueue"

\* C21 (as claimed): an annotate action with N >= 1 points and N labels adds
\* exactly N annotations, the i-th at the i-th point with the i-th label as
\* its text; one with no points and no labels adds exactly one annotation,
\* at (0,0), with the content of the action as its text.
C21_AnnotationPerPair ==
    [][(lastCall' # lastCall
        /\ lastCall'.response.kind = "actions"
        /\ Len(lastCall'.response.actions) = 1
        /\ lastCall'.response.actions[1].action = "annotate") =>
            LET a == lastCall'.response.actions[1]
                n == Len(drawingQueue)
                added == SubSeq(drawingQueue', n + 1, Len(drawingQueue'))
            IN  /\ (Len(a.points) >= 1 /\ Len(a.labels) = Len(a.points)) =>
                      /\ Len(added) = Len(a.points)
                      /\ \A i \in 1..Len(added) :
                            /\ added[i].type = "annotation"
                            /\ added[i].point = a.points[i]
                            /\ added[i].content = a.labels[i]
                /\ (a.points = <<>> /\ a.labels = <<>>) =>
                      /\ Len(added) = 1
                      /\ added[1].type = "annotation"
                      /\ added[1].point = Origin
                      /\ added[1].content = a.content]_vars

\* C22: a POST /api/interpret request that reaches the route with an empty
\* transcript, or with an API key of fewer than 20 characters, is answered
\* 400 'Invalid input'; the model is not called and no session history
\* changes (no session is created either).
C22_InvalidInputRejected ==
    [][(requestCount' = requestCount + 1 /\ lastReply'.routed) =>
          LET transcript == Lookup(lastReply'.body, "transcript")
              apiKey == Lookup(lastReply'.body, "apiKey")
          IN  (\/ transcript.type = "string" /\ transcript.chars = <<>>
               \/ apiKey.type = "string" /\ Len(apiKey.chars) < MIN_API_KEY) =>
                  /\ lastReply'.status = 400
                  /\ lastReply'.error = "Invalid input"
                  /\ lastReply'.messages = <<>>
                  /\ inflight' = inflight
                  /\ sessions' = sessions]_vars

\* C22 witness: a request with a key of 19 characters was answered 400
\* 'Invalid input' while a session exists and an earlier request is waiting
\* for the model.
C22_Witness ==
    /\ lastReply.body = Request(GraphX, Chars(MIN_API_KEY - 1, 49))
    /\ lastReply.status = 400
    /\ lastReply.error = "Invalid input"
    /\ lastReply.request = 2
    /\ DOMAIN inflight = {1}
    /\ DOMAIN sessions # {}

\* C23 (as claimed): a request that reaches the route with a valid API key
\* and a non-empty transcript, longer than 500 characters or not, is not
\* answered 400, and the transcript handed to the model is the transcript
\* without its surrounding white space, cut to 500 characters.
C23_LongTranscriptSanitized ==
    [][(requestCount' = requestCount + 1 /\ lastReply'.routed) =>
          LET transcript == Lookup(lastReply'.body, "transcript")
              apiKey == Lookup(lastReply'.body, "apiKey")
              prompt == lastReply'.prompt
          IN  (/\ transcript.type = "string" /\ Len(transcript.chars) >= 1
               /\ apiKey.type = "string" /\ Len(apiKey.chars) >= MIN_API_KEY) =>
                  /\ lastReply'.status # 400
                  /\ Len(prompt) <= MAX_TRANSCRIPT
                  /\ prompt = LastN(lastReply'.messages, 1)[1].content
                  /\ prompt = SubSeq(Trim(transcript.chars), 1,
                                     IF Len(Trim(transcript.chars)) < MAX_TRANSCRIPT
                                     THEN Len(Trim(transcript.chars))
                                     ELSE MAX_TRANSCRIPT)]_vars

\* The characters a payload may carry: printable ASCII, tab, LF and CR.
PayloadCharacters == (32..126) \cup {9, 10, 13}

\* Some string field other than apiKey, at any depth, holds another character.
RECURSIVE HasForbiddenField(_)
HasForbiddenField(value) ==
    \E i \in 1..Len(value.entries) :
        LET field == value.entries[i]
        IN  /\ field.key # "apiKey"
            /\ \/ /\ field.value.type = "string"
                  /\ \E j \in 1..Len(field.value.chars) :
                        field.value.chars[j] \notin PayloadCharacters
               \/ HasForbiddenField(field.value)

\* C24 (as claimed): a POST body with, at any depth, a string field other
\* than apiKey that holds a character outside printable ASCII, tab, LF and
\* CR is answered 400 'Invalid payload' and never reaches the route (no
\* session changes, no model call); every other body reaches the route.
C24_NonAsciiRejected ==
    [][requestCount' = requestCount + 1 =>
          IF HasForbiddenField(lastReply'.body)
          THEN /\ lastReply'.status = 400
               /\ lastReply'.error = "Invalid payload"
               /\ ~lastReply'.routed
               /\ sessions' = sessions
               /\ inflight' = inflight
          ELSE lastReply'.routed]_vars

\* The step starts the microphone.
MicStarts == ~isListening /\ isListening'

\* The step hands a transcript to the board: handleTranscript puts it in the
\* chat as the user's message.
TranscriptDelivered ==
    /\ Len(chatMessages') = Len(chatMessages) + 1
    /\ chatMessages'[Len(chatMessages')] = "user"

\* C25 (as claimed): while no API key is stored, no step starts the
\* microphone (by the mic button or by the M and S keys, in Demo Mode or
\* not) and no step delivers a transcript to the board.
C25_MicBlockedWithoutKey ==
    [][~apiKeyStored => ~MicStarts /\ ~TranscriptDelivered]_vars

\* The step contains a rendered tick: p.draw ran with the tab visible and
\* at least MIN_FRAME_DELTA since the last rendered tick, and took the time.
RenderedTick == ~isPaused /\ elapsed >= MIN_FRAME_DELTA /\ elapsed' = 0

\* The instance under index after the step: still active with one tick more,
\* or completed by a last render at one tick more.
AdvancedByOne(index) ==
    LET animationState == activeAnimations[index]
    IN  IF /\ index \in DOMAIN activeAnimations'
           /\ activeAnimations'[index].id = animationState.id
        THEN activeAnimations'[index].progress = animationState.progress + 1
        ELSE /\ outcome'[animationState.id] = "completed"
             /\ lastRender'[animationState.id].isComplete
             /\ lastRender'[animationState.id].progress = animationState.progress + 1

\* C26: a rendered tick advances the progress of every active animation by
\* exactly 1, also when another animation completes and leaves the active
\* set in that tick; no step decreases the progress of an instance; and an
\* instance that completed is never rendered again nor active again.
C26_TickAdvancesEveryActive ==
    [][/\ RenderedTick => \A index \in DOMAIN activeAnimations : AdvancedByOne(index)
       /\ \A index \in DOMAIN activeAnimations \cap DOMAIN activeAnimations' :
             activeAnimations'[index].id = activeAnimations[index].id =>
                 activeAnimations'[index].progress >= activeAnimations[index].progress
       /\ \A id \in DOMAIN lastRender :
             lastRender[id].isComplete =>
                 /\ lastRender'[id] = lastRender[id]
                 /\ \A index \in DOMAIN activeAnimations' :
                       activeAnimations'[index].id # id]_vars

\* C26 witness: the last rendered tick completed one animation (it is not
\* yet among the completed drawings a tick has drawn) after more than one
\* tick, and advanced the other one, still active, to the same progress.
C26_Witness ==
    \E index \in DOMAIN activeAnimations, id \in DOMAIN lastRender :
        /\ ticked
        /\ outcome[id] = "completed"
        /\ lastRender[id].isComplete
        /\ id \notin Range(rendered)
        /\ lastRender[id].progress > 1
        /\ activeAnimations[index].progress = lastRender[id].progress
        /\ lastRender[activeAnimations[index].id].progress = lastRender[id].progress

\* C27: while less than MIN_FRAME_DELTA (14 ms) has passed since the last
\* rendered tick, a frame callback changes nothing (no animation advances,
\* nothing completes or is drawn, and the time of the last rendered tick
\* stays: the time since it never goes back); the time since the last
\* rendered tick restarts only in a step that renders, and a step renders
\* only at 14 ms or more after the previous one.
C27_EarlyFrameSkipped ==
    [][/\ elapsed < MIN_FRAME_DELTA =>
             /\ activeAnimations' = activeAnimations
             /\ completedDrawings' = completedDrawings
             /\ completedDrawingsRef' = completedDrawingsRef
             /\ fired' = fired
             /\ outcome' = outcome
             /\ lastRender' = lastRender
             /\ rendered' = rendered
             /\ ticked' = ticked
             /\ elapsed' >= elapsed
       /\ (elapsed' < elapsed \/ lastRender' # lastRender \/ rendered' # rendered) =>
             /\ elapsed >= MIN_FRAME_DELTA
             /\ elapsed' = 0
             /\ ticked']_vars

\* C27 witness: the loop runs with the tab visible, an animation is active
\* and was advanced by a rendered tick, and a time short of 14 ms has passed
\* since: the frame callbacks that arrive now are skipped.
C27_Witness ==
    /\ isLooping
    /\ ~isPaused
    /\ ticked
    /\ elapsed > 0
    /\ elapsed < MIN_FRAME_DELTA
    /\ \E index \in DOMAIN activeAnimations : activeAnimations[index].progress >= 1

\* The instance under index completes in this step.
Completes(index) ==
    /\ outcome[activeAnimations[index].id] = "active"
    /\ outcome'[activeAnimations[index].id] = "completed"

\* C28 (as claimed): when an animation completes, the points p.draw draws
\* for its graph as a completed drawing (on every later tick) are the points
\* the animation drew at completion, in the same order, and both were
\* sampled on the same grid.
C28_CompletedRedrawSamePoints ==
    [][\A index \in DOMAIN activeAnimations :
          Completes(index) =>
              LET animationState == activeAnimations[index]
                  graphData == commandHistory[index + 1]
                  domain == graphData.domain
              IN  /\ graphData \in Range(completedDrawings')
                  /\ CompletedTargetPoints(domain[2] - domain[1]) = animationState.grid
                  /\ CompletedGraphVertices(graphData)
                        = AnimatedGraphVertices(animationState, domain)]_vars

\* The grid samples of a graph command that pass the filter of animateGraph,
\* max included: i = 0..targetPoints, x = min + i * step.
GridSamplesKept(command, targetPoints) ==
    LET domain == command.domain
        Keep(i) == KeepSample(Evaluate(command.expression,
                                       domain[1] * targetPoints
                                           + i * (domain[2] - domain[1]),
                                       targetPoints))
    IN  SelectSeq([k \in 1..(targetPoints + 1) |-> k - 1], Keep)

\* What animateGraph made of command number index: the points of its
\* instance, or none when it returned null.
SampledPoints(index) ==
    IF (index - 1) \in DOMAIN activeAnimations
    THEN activeAnimations[index - 1].points
    ELSE <<>>

Sampled(index) ==
    /\ commandHistory[index].type = "graph"
    /\ \/ (index - 1) \in DOMAIN activeAnimations
       \/ outcome[index] = "none"

\* C29: sampling a graph over [min, max] with min < max evaluates the
\* expression at min, min + step, ..., max inclusive, step = (max - min) /
\* targetPoints, and keeps a sample if and only if its y is finite and
\* |y| <= 20: the kept points are exactly the grid samples that pass the
\* filter, in strictly increasing x, all within [min, max], and there is at
\* least one of them whenever some grid sample passes the filter.
C29_SamplesGridUpToMax ==
    \A index \in 1..Len(commandHistory) :
        Sampled(index) =>
            LET command == commandHistory[index]
                domain == command.domain
                targetPoints == TargetPoints(domain[2] - domain[1],
                                             Multiplier(animationSpeed))
                kept == GridSamplesKept(command, targetPoints)
                points == SampledPoints(index)
            IN  /\ points = kept
                /\ \A k \in 1..Len(points) :
                      /\ points[k] \in 0..targetPoints
                      /\ k > 1 => points[k - 1] < points[k]
                /\ Len(kept) > 0 => Len(points) > 0

\* The same statement for the graphs whose loop reaches max.
C29_WhereLoopReachesMax ==
    \A index \in 1..Len(commandHistory) :
        Sampled(index) =>
            LET command == commandHistory[index]
                domain == command.domain
                targetPoints == TargetPoints(domain[2] - domain[1],
                                             Multiplier(animationSpeed))
            IN  LoopLength(domain, targetPoints) = targetPoints + 1
                    => SampledPoints(index) = GridSamplesKept(command, targetPoints)

\* A sample at max that passes the filter is the only one to pass it, and
\* animateGraph returned null.
C29_OnlyMaxPasses ==
    \E index \in 1..Len(commandHistory) :
        /\ Sampled(index)
        /\ outcome[index] = "none"
        /\ LET command == commandHistory[index]
               domain == command.domain
               targetPoints == TargetPoints(domain[2] - domain[1],
                                            Multiplier(animationSpeed))
           IN  GridSamplesKept(command, targetPoints) = <<targetPoints>>

\* p.beginShape(); p.vertex(...) for each point; p.endShape() under noFill:
\* one open polyline, a segment from each vertex to the next.  The vertices
\* are named by their grid indices.
Polyline(indices) ==
    {<<indices[k], indices[k + 1]>> : k \in 1..(Len(indices) - 1)}

\* The segment joins two kept samples with a grid sample between them, which
\* the sampling loop evaluated and dropped.
JoinsAcrossDrop(segment) == segment[2] > segment[1] + 1

\* The polyline drawAnimatedGraph draws for an instance of which it draws
\* the first drawn points.
AnimatedPolyline(animationState, drawn) ==
    Polyline(SubSeq(animationState.points, 1, drawn))

\* The polyline p.draw draws for a completed graph.
CompletedPolyline(graphData) ==
    LET domain == graphData.domain
    IN  Polyline(SamplePoints(graphData.expression, domain,
                              CompletedTargetPoints(domain[2] - domain[1])))

\* C30: gaps in a sampled sequence are never interpolated across: the
\* polyline a rendered tick draws for a graph, while it is animating or once
\* it is completed, has no segment that joins two kept samples between
\* which a grid sample was dropped.
C30_NoSegmentAcrossGap ==
    [][RenderedTick =>
          /\ \A index \in DOMAIN activeAnimations :
                LET animationState == activeAnimations[index]
                    drawn == lastRender'[animationState.id].drawn
                IN  \A segment \in AnimatedPolyline(animationState, drawn) :
                        ~JoinsAcrossDrop(segment)
          /\ \A k \in 1..Len(completedDrawings') :
                LET graphData == completedDrawings'[k]
                IN  graphData.type = "graph" /\ graphData.id \in Range(rendered')
                        => \A segment \in CompletedPolyline(graphData) :
                               ~JoinsAcrossDrop(segment)]_vars

\* The same statement for the graphs of which no sample between two kept
\* ones is dropped (x and x*x).
C30_WhereNoSampleDroppedInside ==
    [][RenderedTick =>
          /\ \A index \in DOMAIN activeAnimations :
                LET animationState == activeAnimations[index]
                    drawn == lastRender'[animationState.id].drawn
                IN  commandHistory[index + 1].expression \in {"x", "x*x"}
                        => \A segment \in AnimatedPolyline(animationState, drawn) :
                               ~JoinsAcrossDrop(segment)
          /\ \A k \in 1..Len(completedDrawings') :
                LET graphData == completedDrawings'[k]
                IN  (/\ graphData.type = "graph"
                     /\ graphData.id \in Range(rendered')
                     /\ graphData.expression \in {"x", "x*x"})
                        => \A segment \in CompletedPolyline(graphData) :
                               ~JoinsAcrossDrop(segment)]_vars

\* The iterations of an exact loop over x = start + k * p / q, k = 0, 1, ...
\* while x <= end, whose func(x) is neither NaN nor infinite, in order.
ClaimedSamples(func, start, end, p, q) ==
    LET last == IF end < start THEN -1 ELSE ((end - start) * q) \div p
        Keep(k) == /\ func # "NaN"
                   /\ func = "1/x" => start * q + k * p # 0
    IN  SelectSeq([j \in 1..(last + 1) |-> j - 1], Keep)

\* The scenario of the claim: 1/x over [-1, 1] with step 0.5
ScenarioCall ==
    /\ sampled.func = "1/x"
    /\ sampled.start = -1
    /\ sampled.end = 1
    /\ sampled.p = 1
    /\ sampled.q = 2

\* C31: sampleFunction(func, start, end, step) returns, in increasing x,
\* exactly the points (x, func(x)) for x = start, start + step, ... not
\* exceeding end whose y is neither NaN nor infinite; for 1/x over [-1, 1]
\* with step 0.5 the sample at x = 0 is dropped and all others are retained.
C31_SampleFunctionPoints ==
    sampled # NotSampled =>
        LET points == sampled.points
        IN  /\ [k \in 1..Len(points) |-> points[k].index]
                  = ClaimedSamples(sampled.func, sampled.start, sampled.end,
                                   sampled.p, sampled.q)
            /\ \A k \in 2..Len(points) : ~AtMost(points[k].x, points[k - 1].x)
            /\ ScenarioCall
                  => [k \in 1..Len(points) |-> points[k].index] = <<0, 1, 3, 4>>

\* The same statement for the steps that are doubles exactly (1, 0.5, 0.25).
C31_WithExactSteps ==
    (sampled # NotSampled /\ sampled.q \in {1, 2, 4}) =>
        LET points == sampled.points
        IN  /\ [k \in 1..Len(points) |-> points[k].index]
                  = ClaimedSamples(sampled.func, sampled.start, sampled.end,
                                   sampled.p, sampled.q)
            /\ \A k \in 2..Len(points) : ~AtMost(points[k].x, points[k - 1].x)

\* The scenario of the claim has been sampled as the claim says.
C31_Scenario ==
    /\ ScenarioCall
    /\ [k \in 1..Len(sampled.points) |-> sampled.points[k].index] = <<0, 1, 3, 4>>

\* What holds of a callWithRetry call in every state
RetryContract(r) ==
    /\ r.calls <= r.attempts
    /\ r.pc = "resolved" =>
          /\ r.settled = [kind |-> "value", attempt |-> Len(r.failures)]
          /\ r.calls = Len(r.failures) + 1
    /\ r.pc = "rejected" =>
          /\ Len(r.failures) = r.attempts
          /\ r.settled = r.failures[r.attempts]
    /\ \A j \in 1..Len(r.failures) :
          r.failures[j] \in {RequestTimeout, [kind |-> "error", attempt |-> j - 1]}
    /\ Len(r.slept) = IF r.pc = "rejected" THEN Len(r.failures) - 1
                      ELSE Len(r.failures)
    /\ \A j \in 1..Len(r.slept) : r.slept[j] = 300 * j

\* The timer of the attempt awaited fires in this step.
AwaitedTimesOut ==
    /\ retry.pc = "awaiting"
    /\ retry.i \in retry.timers
    /\ retry.i \notin retry'.timers

\* C32: callWithRetry(fn, attempts, timeoutMs) with attempts >= 1 invokes fn
\* at most attempts times; it resolves with the result of the first attempt
\* that succeeds within timeoutMs and does not invoke fn again; an attempt
\* not settled when its timeoutMs are over counts as failed with 'Request
\* timeout'; after attempts failures in a row it rejects with the error of
\* the last attempt; it waits 300 * i ms after the i-th failed attempt, and
\* only then makes the next one.
C32_RetryContract ==
    [][/\ RetryContract(retry')
       /\ retry.pc \in {"resolved", "rejected"} =>
             /\ retry'.calls = retry.calls
             /\ retry'.settled = retry.settled
             /\ retry'.pc = retry.pc
       /\ AwaitedTimesOut => retry'.failures = Append(retry.failures, RequestTimeout)
       /\ (retry.calls > 0 /\ retry'.calls # retry.calls) =>
             /\ retry.pc = "sleeping"
             /\ retry'.calls = retry.calls + 1
             /\ retry'.i = Len(retry.failures)]_vars

\* The third attempt succeeded after an error and a timeout, and the waits
\* were of 300 and 600 ms.
C32_Witness ==
    /\ retry.pc = "resolved"
    /\ retry.attempts = 3
    /\ retry.settled.attempt = 2
    /\ retry.failures = <<[kind |-> "error", attempt |-> 0], RequestTimeout>>
    /\ retry.slept = <<300, 600>>
    /\ retry.calls = 3

\* All attempts failed, the last by timeout, and the call rejected with it.
C32_WitnessRejected ==
    /\ retry.pc = "rejected"
    /\ retry.attempts = 3
    /\ retry.calls = 3
    /\ retry.settled = RequestTimeout

\* C38: callWithRetry never has two invocations of fn in flight at the same
\* time: when a retry attempt starts, the previous attempt has settled or
\* been cancelled, also when it failed by timeout.
C38_OneInvocationInFlight ==
    Cardinality(retry.pending) <= 1

\* The same statement for calls none of whose attempts has timed out.
C38_WithoutTimeouts ==
    RequestTimeout \notin Range(retry.failures) => Cardinality(retry.pending) <= 1

\* C33: every response of GET /api/interpret/stream, on every path (missing
\* parameters, invalid input, no function call, unparsable arguments,
\* success, thrown error), emits exactly one 'end' event, as its last event,
\* and nothing is written to the response after it has been ended.
C33_OneEndEventLast ==
    stream.pc = "done" =>
        LET events == stream.written \o stream.afterEnd
        IN  /\ Cardinality({k \in 1..Len(events) : events[k] = "end"}) = 1
            /\ events[Len(events)] = "end"
            /\ stream.afterEnd = <<>>
            /\ stream.ended

\* The same statement for the paths that do not return from inside try:
\* missing parameters, invalid input, success and a thrown error.
C33_WithoutReturnInTry ==
    (stream.pc = "done" /\ stream.path \notin {"no function call",
                                               "unparsable arguments"}) =>
        /\ Cardinality({k \in 1..Len(stream.written) : stream.written[k] = "end"}) = 1
        /\ stream.written[Len(stream.written)] = "end"
        /\ stream.afterEnd = <<>>
        /\ stream.ended

\* C34: after any sequence of addMessage calls, a session's history holds
\* at most 20 messages, and they are the most recently added ones, in the
\* order they were added.
C34_HistoryIsLastTwenty ==
    /\ DOMAIN sessions = DOMAIN addedLog
    /\ \A sessionId \in DOMAIN addedLog :
          LET history == sessions[sessionId]
              all == addedLog[sessionId]
              kept == IF Len(all) < 20 THEN Len(all) ELSE 20
          IN  /\ Len(history) <= 20
              /\ Len(history) = kept
              /\ \A j \in 1..kept : history[j] = all[Len(all) - kept + j]

\* 22 messages were added to a session and 21 to the other: each holds its
\* last 20.
C34_Witness ==
    \E s1 \in DOMAIN addedLog, s2 \in DOMAIN addedLog :
        /\ Len(addedLog[s1]) = 22
        /\ Len(addedLog[s2]) = 21
        /\ Len(sessions[s1]) = 20
        /\ sessions[s1][1].content = <<3>>
        /\ sessions[s2][20].content = <<21>>

\* The last /api/interpret call made before a submission: the last one sent.
LastSent(brain) == brain.calls[Len(brain.calls)]

\* The transcript just submitted repeats the last one sent, less than
\* DEBOUNCE_MS after it.
RepeatedInTime(before, said) ==
    /\ before.calls # <<>>
    /\ said.transcript = LastSent(before).transcript
    /\ said.at - LastSent(before).at < DEBOUNCE_MS

\* C35: a transcript identical to the last one sent and submitted less than
\* 1500 ms after it causes no call to the interpretation service and adds no
\* drawing command; a different transcript, or the same one 1500 ms or more
\* after the last one sent, is sent to the service (read for the transcripts
\* handleTranscript hands to interpretCommand while a key is stored: not
\* blank, not in Demo Mode).
C35_DebounceOfDuplicates ==
    [][/\ chatMessages' = Append(chatMessages, "user") =>
            LET said == tutorBrain'.submitted
            IN  IF RepeatedInTime(tutorBrain, said)
                THEN /\ tutorBrain'.calls = tutorBrain.calls
                     /\ drawingQueue' = drawingQueue
                     /\ pending' # "sent"
                ELSE said.path \notin {"demo", "no key"} =>
                        /\ tutorBrain'.calls =
                              Append(tutorBrain.calls,
                                     [transcript |-> said.transcript, at |-> said.at])
                        /\ pending' = "sent"
       /\ (pending = "empty" /\ pending' = "none") =>
              /\ drawingQueue' = drawingQueue
              /\ tutorBrain'.calls = tutorBrain.calls]_vars

\* C35 witness: "Graph x" was sent, sent again exactly 1500 ms later, and
\* then debounced 1499 ms after that; processActions has run on the empty
\* response and the board drew nothing for it.
C35_Witness ==
    /\ Len(tutorBrain.calls) = 2
    /\ tutorBrain.calls[1].transcript = GraphX
    /\ tutorBrain.calls[2].transcript = GraphX
    /\ tutorBrain.calls[2].at - tutorBrain.calls[1].at = DEBOUNCE_MS
    /\ tutorBrain.submitted.path = "debounced"
    /\ tutorBrain.submitted.transcript = GraphX
    /\ tutorBrain.submitted.at - tutorBrain.calls[2].at = DEBOUNCE_MS - 1
    /\ pending = "none"
    /\ IsEmptyInterpretation(lastCall.response)

\* a is a strict prefix of b.
StrictPrefix(a, b) == Len(a) < Len(b) /\ a = SubSeq(b, 1, Len(a))

\* The claimed shape of the undo stack under the command list.
ChainOfStrictPrefixes(stack, queue) ==
    /\ \A i \in 1..Len(stack) - 1 : StrictPrefix(stack[i], stack[i + 1])
    /\ Len(stack) > 0 => StrictPrefix(stack[Len(stack)], queue)

\* C36: in every reachable state the undo stack is a chain of strict
\* prefixes: each snapshot is a strict prefix of the snapshot above it, the
\* top snapshot is a strict prefix of the current command list, and so each
\* undo that pops a snapshot strictly shortens the command list.
C36_StackIsChainOfStrictPrefixes ==
    /\ []ChainOfStrictPrefixes(actionStack, drawingQueue)
    /\ [][(hist'.op = "undo" /\ Len(actionStack') < Len(actionStack))
              => Len(drawingQueue') < Len(drawingQueue)]_vars

\* C36 witness: two enqueues and then an undo, which popped the snapshot
\* of one command and left the snapshot of the empty board under a list of
\* one command.
C36_Witness ==
    /\ hist.op = "undo"
    /\ hist.popped
    /\ Len(actionStack) = 1
    /\ Len(drawingQueue) = 1
    /\ nextId = 3

\* The commands that have an entry in the active-animation map.
ActiveIds == {activeAnimations[key].id : key \in DOMAIN activeAnimations}

\* C37: in every reachable state of the canvas each key of the
\* active-animation map is a valid index into the command history and the
\* command at that index is a graph (the one the animation belongs to); no
\* command is both active and in the completed list; and every dispatched
\* graph with non-empty samples is, until a clear empties the history, in
\* exactly one of the two: the map, or the completed list p.draw pushes to.
C37_ActiveAndCompleted ==
    /\ \A key \in DOMAIN activeAnimations :
            /\ key \in 0..Len(commandHistory) - 1
            /\ commandHistory[key + 1].type = "graph"
            /\ commandHistory[key + 1].id = activeAnimations[key].id
    /\ ActiveIds \cap Range(Ids(completedDrawings)) = {}
    /\ ActiveIds \cap Range(Ids(completedDrawingsRef)) = {}
    /\ \A h \in 1..Len(commandHistory) :
            (commandHistory[h].type = "graph" /\ HasSamples(commandHistory[h])) =>
                (commandHistory[h].id \in ActiveIds)
                    # (commandHistory[h].id \in Range(Ids(completedDrawings)))

\* C37 witness: two graphs with samples were dispatched after a Clear Board;
\* the first has completed and is in the completed list, the second is still
\* active under its history index 1.
C37_Witness ==
    /\ lastClear.kind = "clearBoard"
    /\ Len(commandHistory) = 2
    /\ commandHistory[1].type = "graph"
    /\ commandHistory[2].type = "graph"
    /\ DOMAIN activeAnimations = {1}
    /\ commandHistory[1].id \in Range(Ids(completedDrawings))

\* The messages a session holds before a request: those recorded by earlier
\* requests of the same session.
RecordedEarlier(store, sessionId) ==
    IF sessionId \in DOMAIN store THEN store[sessionId] ELSE <<>>

\* How often a transcript is among the user messages sent to the model.
Occurrences(messages, transcript) ==
    Cardinality({i \in 1..Len(messages) :
                    messages[i].role = "user" /\ messages[i].content = transcript})

\* C39: in POST /api/interpret the conversation history passed to the model
\* holds only messages recorded by earlier requests of the same session, so
\* the current transcript appears exactly once in the messages sent to the
\* model (when no earlier request of the session carried the same one).
C39_HistoryOfEarlierRequests ==
    [][(requestCount' = requestCount + 1 /\ lastReply'.messages # <<>>) =>
          LET sessionId == SessionOf(lastReply'.body, lastReply'.request)
              earlier == RecordedEarlier(sessions, sessionId)
          IN  /\ lastReply'.messages = Messages(lastReply'.prompt, earlier)
              /\ Occurrences(earlier, lastReply'.prompt) = 0 =>
                     Occurrences(lastReply'.messages, lastReply'.prompt) = 1]_vars

\* What the code sends instead: the history with the current transcript
\* already pushed onto it, and then the prompt.
C39_CurrentTranscriptInHistory ==
    [][(requestCount' = requestCount + 1 /\ lastReply'.messages # <<>>) =>
          LET sessionId == SessionOf(lastReply'.body, lastReply'.request)
              earlier == RecordedEarlier(sessions, sessionId)
              current == [role |-> "user", content |-> lastReply'.prompt]
          IN  lastReply'.messages =
                  Messages(lastReply'.prompt, Append(earlier, current))]_vars

\* The transcript of a request body is a string of nothing but whitespace.
BlankTranscript(body) ==
    /\ body.type = "object"
    /\ Lookup(body, "transcript").type = "string"
    /\ Lookup(body, "transcript").chars # <<>>
    /\ Trim(Lookup(body, "transcript").chars) = <<>>

\* C40: every transcript that passes the validation of POST /api/interpret
\* is non-empty after sanitization when it is stored in the session and sent
\* to the model: a transcript made only of whitespace is rejected with 400
\* 'Invalid input'.
C40_NoEmptyTranscriptPasses ==
    /\ lastReply.messages # <<>> => lastReply.prompt # <<>>
    /\ \A sessionId \in DOMAIN sessions :
           \A i \in 1..Len(sessions[sessionId]) :
               sessions[sessionId][i].role = "user" =>
                   sessions[sessionId][i].content # <<>>
    /\ (lastReply.request # 0 /\ BlankTranscript(lastReply.body)) =>
           (lastReply.status = 400 /\ lastReply.error = "Invalid input")

\* The same statement for the transcripts with a character that trim keeps.
C40_WithSolidCharacter ==
    (lastReply.messages # <<>> /\ ~BlankTranscript(lastReply.body)) =>
        /\ lastReply.prompt # <<>>
        /\ lastReply.prompt = Trim(Lookup(lastReply.body, "transcript").chars)

====
